---- MODULE Spec2Model ----
(***************************************************************************)
(* A model of the request execution pipeline of the go-client HTTP client  *)
(* library: the retry policy (internal/retry), the client construction and *)
(* the per-call pipeline (internal/client), the load-balancer strategies   *)
(* (loadbalancer) and the batch executor (internal/batch).                 *)
(*                                                                         *)
(* Each component has its own variables and its own specification          *)
(* (SpecRetry, SpecClient, SpecDo, SpecLB, SpecBatch and so on); a         *)
(* specification leaves the variables of the other components at their     *)
(* initial value.                                                          *)
(* Durations are in whole seconds.                                         *)
(***************************************************************************)
EXTENDS Integers, Sequences, FiniteSets, TLC

VARIABLES
    \* ---- retry.exponentialBackoff.Execute (one call of it) ----
    e,          \* the strategy: [maxRetries, baseDelay, multiplier, maxDelay]
    rpc,        \* position in Execute: "idle", "loop", "sleep", "done"
    attempt,    \* the loop variable of Execute
    lastErr,    \* the local lastErr of Execute
    invoked,    \* the results fn() returned so far, in order
    slept,      \* the arguments of the time.Sleep calls so far, in order
    ret         \* what Execute returned: [data, err]

retryVars == <<e, rpc, attempt, lastErr, invoked, slept, ret>>

VARIABLES
    \* ---- client.New, the With* chain and client.do ----
    phase,      \* "ready": the chain's client is built; "constructing"; "fatal"
    client,     \* the client the chain has built: [config, middlewares, ...]
    newStack,   \* the frames of the running (recursive) calls of client.New
    chain,      \* how many With* calls the chain has made
    doStack,    \* the frames of the running (recursive) calls of client.do
    transport,  \* the httpClient.Do calls of the current top-level call
    result,     \* what the last top-level call returned: [data, err]
    callsMade,  \* top-level calls started on this client
    streak,     \* consecutive finished calls of this client that ended in a 5xx
    sinceFail,  \* seconds since the last such call finished, up to MaxElapsed
    armed,      \* the current call began after >= threshold such calls, within the timeout
    events,     \* what the current top-level call has done so far, in order
    ctxDone     \* the context of the current top-level call is cancelled

clientVars == <<phase, client, newStack, chain, doStack, transport, result,
                callsMade, streak, sinceFail, armed, events, ctxDone>>

VARIABLES
    \* ---- one load balancer and the goroutines that use it ----
    lbStrategy, \* the strategy loadbalancer.New was given
    endpoints,  \* the pool: a sequence of [URL, Weight, Connections]
    current,    \* roundRobinLB.current
    lbMu,       \* the RWMutex: [readers: the goroutines holding RLock, writer: 0 or the holder of Lock]
    lbProc,     \* per goroutine: [op, pc, arg, index, res, poolSel, poolRet, returned]
    lbPanic,    \* "none", or why the program panicked: "index" (pool index out of range), "rand"
    lbStarted,  \* NextEndpoint calls started
    lbMutated,  \* AddEndpoint/RemoveEndpoint calls started
    selLog,     \* round-robin, unmutated pool: the endpoints selected, in cursor order
    returned    \* round-robin, unmutated pool: per URL, the calls that returned it

lbVars == <<lbStrategy, endpoints, current, lbMu, lbProc, lbPanic, lbStarted,
            lbMutated, selLog, returned>>

VARIABLES
    \* ---- one BatchRequest and one call of its ExecuteContext ----
    requests,   \* br.requests
    bpc,        \* the caller: "adding", "spawning", "waiting", "returned"
    responses,  \* the slice ExecuteContext fills and returns
    wg,         \* the WaitGroup counter
    task,       \* per spawned goroutine: [pc, index, item, tr, data, err]
    bret        \* what ExecuteContext returned: [n, err], n = len(responses)

batchVars == <<requests, bpc, responses, wg, task, bret>>

VARIABLES
    \* ---- one PipelineRequest and one call of its ExecuteContext ----
    prequests,  \* pr.requests
    ppc,        \* the goroutine: "adding" (not started), "loop", "executing",
                \* "select", "closed"
    pindex,     \* the iterations of the loop begun so far
    presponse,  \* the response the current iteration has built
    ch,         \* the buffer of the channel, capacity len(requests)
    chClosed,   \* close(ch) has run
    cancelled,  \* ctx.Done() is closed
    received,   \* what the caller has received from ch, in order
    atCancel    \* the number of results sent when ctx was cancelled, -1 before

pipeVars == <<prequests, ppc, pindex, presponse, ch, chClosed, cancelled,
              received, atCancel>>

VARIABLES
    \* ---- one circuitBreakerMiddleware and the goroutines that use it ----
    cb,         \* its fields: state, failures, lastFailTime, threshold, timeout
    cbNow,      \* the clock, in units of the timeout's resolution
    cbProc,     \* per goroutine: [pc, state, lastFailTime], the locals of Before
    cbCalls,    \* the Before calls begun so far
    probes,     \* the goroutines Before let through while the breaker was
                \* HalfOpen and whose request is still in flight
    cbLast,     \* the last call that assigned cb's fields: [op, from, to,
                \* status], from and to being cb.state before and after it
    afterLog    \* the status codes of the responses given to After, in order

cbVars == <<cb, cbNow, cbProc, cbCalls, probes, cbLast, afterLog>>

VARIABLES
    \* ---- one cacheMiddleware, its cleanup goroutine and its callers ----
    cache,      \* c.cache: key -> [Response, ExpiresAt, by]; by is the method
                \* of the request whose response the entry holds
    ttl,        \* c.ttl
    cacheNow,   \* the clock
    creq,       \* the request between its Before and its After, or NoRequest
    stored,     \* per URL: what After last stored for a GET of that URL,
                \* [Response, ExpiresAt], or NoEntry
    cacheLast   \* the last call on the cache: [op, method, status, changed, early]

cacheVars == <<cache, ttl, cacheNow, creq, stored, cacheLast>>

VARIABLES
    \* ---- clients derived from one root client by With* calls ----
    fclients,   \* the clients made so far, the root first: [config]; a config
                \* holds UserAgent, the id of its Headers map and the slice
                \* header of its RequestInterceptors
    maps,       \* the heap of header maps: id -> key -> value or Absent
    arrays,     \* the heap of backing arrays of interceptor slices
    made,       \* per client: what it was made by and what its configuration
                \* showed when New returned it
    fLast       \* the last With* call: [op, receiver, before, child, set]

fluentVars == <<fclients, maps, arrays, made, fLast>>

VARIABLES
    \* ---- one tracingMiddleware and the goroutines whose requests pass it ----
    tspan,      \* t.span: 0 (nil) or the number of the span it holds
    spans,      \* the spans tracer.Start has made, in order: [req, ends],
                \* ends being the requests whose After called End on the span
    trProc,     \* per goroutine: [pc, req], the request its executeRequest has
    trCalls,    \* executeRequest calls begun so far
    trAfter     \* the requests whose After has returned

tracingVars == <<tspan, spans, trProc, trCalls, trAfter>>

(***************************************************************************)
(* Bounds of the model.                                                    *)
(***************************************************************************)
MaxRetries == 6         \* largest Retries explored for Execute alone
MaxClientRetries == 2   \* largest argument of WithRetries explored
MaxThreshold == 1       \* largest threshold given to WithCircuitBreaker
MaxChain == 2           \* longest chain of With* calls
MaxCalls == 2           \* most calls made on one client
MaxElapsed == 3         \* elapsed time is counted up to here
MaxStackDepth == 4      \* nested calls the goroutine stack holds
MaxPool == 2            \* most endpoints in a pool
NumProcs == 2           \* goroutines using the load balancer
MaxLBCalls == 4         \* most NextEndpoint calls
MaxMutations == 1       \* most AddEndpoint/RemoveEndpoint calls
MaxItems == 3           \* most items added to a batch
NumCBProcs == 2         \* goroutines that call the circuit breaker
MaxCBCalls == 4         \* most Before calls on the circuit breaker
MaxCBThreshold == 2     \* largest threshold of a circuit breaker
MaxCBTimeout == 1       \* largest timeout of a circuit breaker
MaxNow == 3             \* the clock of the circuit breaker stops here
MaxTTL == 1             \* largest ttl of a cache
MaxCacheNow == 2        \* the clock of the cache stops here
MaxClients == 6         \* clients made from one root, the root included
MaxHeaderCalls == 2     \* WithHeader, WithAuth and WithHeaders calls
MaxScalarCalls == 1     \* WithUserAgent calls
MaxDoRetries == 1       \* largest Retries of a client whose do is explored
MaxBackups == 2         \* most backup clients of such a client
NumTraceProcs == 2      \* goroutines with a request on the traced client
MaxTraceCalls == 3      \* executeRequest calls on the traced client

(***************************************************************************)
(* Program constants: config.Default().                                    *)
(***************************************************************************)
DefaultRetries == 3
RetryDelay == 1
RetryMultiplier == 2
RetryMaxDelay == 30
CircuitBreakerThreshold == 5
CircuitBreakerTimeout == 60
StateClosed == 0
StateOpen == 1
StateHalfOpen == 2

(***************************************************************************)
(* Error values.  Go errors are modelled by their dynamic type and their   *)
(* fields; the text of an error is computed the way its Error() method     *)
(* (or fmt.Errorf) computes it.                                            *)
(***************************************************************************)
Min(a, b) == IF a <= b THEN a ELSE b

NilErr == [type |-> "nil"]
NilData == "<nil>"

Digit(d) ==
    CASE d = 0 -> "0" [] d = 1 -> "1" [] d = 2 -> "2" [] d = 3 -> "3"
      [] d = 4 -> "4" [] d = 5 -> "5" [] d = 6 -> "6" [] d = 7 -> "7"
      [] d = 8 -> "8" [] d = 9 -> "9"

RECURSIVE Itoa(_)
\* the %d verb of fmt, for a non-negative integer
Itoa(n) == IF n < 10 THEN Digit(n) ELSE Itoa(n \div 10) \o Digit(n % 10)

\* retry.NewHTTPError: a value of type *retry.HTTPError
NewHTTPError(statusCode, message) ==
    [type |-> "HTTPError", StatusCode |-> statusCode, Message |-> message]

\* fmt.Errorf with no %w verb: a plain error that only carries its text
Errorf(text) == [type |-> "errorString", s |-> text]

\* err.Error()
ErrorText(err) ==
    CASE err.type = "HTTPError" ->
            "HTTP " \o Itoa(err.StatusCode) \o ": " \o err.Message
      [] err.type = "errorString" -> err.s
      [] err.type = "wrapError" -> err.msg
      [] err.type = "nil" -> "<nil>"

\* fmt.Errorf(prefix + "%w", err): the text is formatted at once, the cause is
\* kept; a nil operand is no error to wrap: the verb prints as a bad verb
\* and the result is a plain error
ErrorfW(prefix, err) ==
    IF err.type = "nil"
    THEN [type |-> "errorString", s |-> prefix \o "%!w(<nil>)"]
    ELSE [type |-> "wrapError", msg |-> prefix \o ErrorText(err), err |-> err]

\* errors.Unwrap
Unwrap(err) == IF err.type = "wrapError" THEN err.err ELSE NilErr

(***************************************************************************)
(* internal/retry/retry.go                                                 *)
(***************************************************************************)
\* NewExponentialBackoff(cfg)
NewExponentialBackoff(retries) ==
    [maxRetries |-> retries, baseDelay |-> RetryDelay,
     multiplier |-> RetryMultiplier, maxDelay |-> RetryMaxDelay]

RECURSIVE Pow(_, _)
\* math.Pow for a non-negative integer exponent
Pow(b, n) == IF n = 0 THEN 1 ELSE b * Pow(b, n - 1)

\* a mutant: the delay is not clamped to maxDelay
calculateDelayUnclamped(s, att) == s.baseDelay * Pow(s.multiplier, att)

\* exponentialBackoff.calculateDelay
calculateDelay(s, att) ==
    LET delay == s.baseDelay * Pow(s.multiplier, att)
    IN  IF delay > s.maxDelay THEN s.maxDelay ELSE delay

\* a mutant: one iteration too many
LoopConditionOffByOne(att, maxRetries) == att <= maxRetries + 1

\* the loop condition of Execute: attempt <= e.maxRetries
LoopCondition(att, maxRetries) == att <= maxRetries

\* a mutant: every status from 400 up stops Execute
IsClientErrorNoUpperBound(err) == err.type = "HTTPError" /\ err.StatusCode >= 400

\* the type assertion and range test that stop Execute on a client error
IsClientError(err) ==
    /\ err.type = "HTTPError"
    /\ err.StatusCode >= 400
    /\ err.StatusCode < 500

\* a mutant: the exhaustion error does not keep the cause
ExhaustedErrorFlat(err) == Errorf("max retries exceeded: " \o ErrorText(err))

\* the error Execute returns after the loop
ExhaustedError(err) == ErrorfW("max retries exceeded: ", err)

\* Execute is entered: var lastErr error; attempt := 0
ExecuteEnter(strategy) ==
    /\ e' = strategy
    /\ rpc' = "loop"
    /\ attempt' = 0
    /\ lastErr' = NilErr
    /\ invoked' = <<>>
    /\ slept' = <<>>
    /\ ret' = [data |-> NilData, err |-> NilErr]

\* the frame of a returned Execute is gone
ExecuteLeave ==
    /\ e' = NewExponentialBackoff(DefaultRetries)
    /\ rpc' = "idle"
    /\ attempt' = 0
    /\ lastErr' = NilErr
    /\ invoked' = <<>>
    /\ slept' = <<>>
    /\ ret' = [data |-> NilData, err |-> NilErr]

\* one iteration of the loop of Execute up to its sleep; out is what fn() returned
ExecuteAttempt(out) ==
    /\ rpc = "loop"
    /\ LoopCondition(attempt, e.maxRetries)
    /\ invoked' = Append(invoked, out)
    /\ IF out.err = NilErr
       THEN /\ ret' = [data |-> out.data, err |-> NilErr]
            /\ rpc' = "done"
            /\ UNCHANGED <<attempt, lastErr>>
       ELSE /\ lastErr' = out.err
            /\ IF IsClientError(out.err)
               THEN /\ ret' = [data |-> NilData, err |-> out.err]
                    /\ rpc' = "done"
                    /\ UNCHANGED attempt
               ELSE IF attempt < e.maxRetries
                    THEN /\ rpc' = "sleep"
                         /\ UNCHANGED <<attempt, ret>>
                    ELSE /\ attempt' = attempt + 1
                         /\ UNCHANGED <<rpc, ret>>
    /\ UNCHANGED <<e, slept>>

\* time.Sleep(e.calculateDelay(attempt)) returns; attempt++
ExecuteSleep ==
    /\ rpc = "sleep"
    /\ slept' = Append(slept, calculateDelay(e, attempt))
    /\ attempt' = attempt + 1
    /\ rpc' = "loop"
    /\ UNCHANGED <<e, lastErr, invoked, ret>>

\* the loop is left: return nil, fmt.Errorf("max retries exceeded: %w", lastErr)
ExecuteExhausted ==
    /\ rpc = "loop"
    /\ ~LoopCondition(attempt, e.maxRetries)
    /\ ret' = [data |-> NilData, err |-> ExhaustedError(lastErr)]
    /\ rpc' = "done"
    /\ UNCHANGED <<e, attempt, lastErr, invoked, slept>>

(***************************************************************************)
(* config.Config and client.New                                            *)
(***************************************************************************)
\* config.Default(), the fields the pipeline reads
Default ==
    [BaseURL |-> "", Retries |-> DefaultRetries,
     CircuitBreakerThreshold |-> CircuitBreakerThreshold,
     CircuitBreakerTimeout |-> CircuitBreakerTimeout,
     MetricsEnabled |-> FALSE, TracingEnabled |-> FALSE, DebugEnabled |-> FALSE,
     BackupEndpoints |-> <<>>,
     RateLimitRPS |-> 0, LoadBalancerEndpoints |-> <<>>, IPWhitelist |-> <<>>,
     RequestSigningKey |-> "",
     RequestInterceptors |-> <<>>, ResponseInterceptors |-> <<>>]

\* Config.Clone: clone := *c copies every field, BackupEndpoints and
\* LoadBalancerEndpoints included
Clone(c) ==
    [BaseURL |-> c.BaseURL, Retries |-> c.Retries,
     CircuitBreakerThreshold |-> c.CircuitBreakerThreshold,
     CircuitBreakerTimeout |-> c.CircuitBreakerTimeout,
     MetricsEnabled |-> c.MetricsEnabled, TracingEnabled |-> c.TracingEnabled,
     DebugEnabled |-> c.DebugEnabled,
     BackupEndpoints |-> c.BackupEndpoints,
     RateLimitRPS |-> c.RateLimitRPS,
     LoadBalancerEndpoints |-> c.LoadBalancerEndpoints,
     IPWhitelist |-> c.IPWhitelist,
     RequestSigningKey |-> c.RequestSigningKey,
     RequestInterceptors |-> c.RequestInterceptors,
     ResponseInterceptors |-> c.ResponseInterceptors]

\* the middlewares New appends: metrics, tracing and debug, by their flags
DefaultMiddlewares(cfg) ==
    (IF cfg.MetricsEnabled THEN <<"metrics">> ELSE <<>>)
        \o (IF cfg.TracingEnabled THEN <<"tracing">> ELSE <<>>)
        \o (IF cfg.DebugEnabled THEN <<"debug">> ELSE <<>>)

\* the client New returns for cfg once its backup clients are built
NewClient(cfg, backups) ==
    [config |-> cfg,
     rateLimiter |-> cfg.RateLimitRPS > 0,
     middlewares |-> DefaultMiddlewares(cfg),
     retryStrategy |-> NewExponentialBackoff(cfg.Retries),
     loadBalancer |-> cfg.LoadBalancerEndpoints,
     requestSigner |-> cfg.RequestSigningKey # "",
     ipWhitelist |-> cfg.IPWhitelist,
     backupClients |-> backups]

\* a frame of New: its cfg, the index of the next backup endpoint of its
\* loop, and the backup clients appended so far
NewFrame(cfg) == [cfg |-> cfg, i |-> 1, backups |-> <<>>]

\* a With* method: New(newConfig) is entered; the calls made on the receiver
\* do not count for the new client
StartNew(newConfig) ==
    /\ phase = "ready"
    /\ doStack = <<>>
    /\ chain < MaxChain
    /\ chain' = chain + 1
    /\ phase' = "constructing"
    /\ newStack' = <<NewFrame(newConfig)>>
    /\ transport' = <<>>
    /\ result' = [data |-> NilData, err |-> NilErr]
    /\ callsMade' = 0
    /\ streak' = 0
    /\ sinceFail' = 0
    /\ armed' = FALSE
    /\ UNCHANGED <<client, doStack, events, ctxDone>>
    /\ UNCHANGED retryVars

\* strings.TrimSuffix(baseURL, "/") on the base URLs explored
TrimSuffixSlash(u) == IF u = "http://x/" THEN "http://x" ELSE u

WithRetries ==
    \E r \in 0..MaxClientRetries :
        StartNew([Clone(client.config) EXCEPT !.Retries = r])

WithBaseURL ==
    \E u \in {"http://x", "http://x/"} :
        StartNew([Clone(client.config) EXCEPT !.BaseURL = TrimSuffixSlash(u)])

WithBackupEndpoints ==
    \E eps \in {<<>>, <<"http://y">>} :
        StartNew([Clone(client.config) EXCEPT !.BackupEndpoints = eps])

WithCircuitBreaker ==
    \E threshold \in 1..MaxThreshold, timeout \in {1, 2} :
        StartNew([Clone(client.config) EXCEPT
                     !.CircuitBreakerThreshold = threshold,
                     !.CircuitBreakerTimeout = timeout])

WithMetrics ==
    \E enabled \in BOOLEAN :
        StartNew([Clone(client.config) EXCEPT !.MetricsEnabled = enabled])

WithTracing ==
    \E enabled \in BOOLEAN :
        StartNew([Clone(client.config) EXCEPT !.TracingEnabled = enabled])

WithDebug ==
    \E enabled \in BOOLEAN :
        StartNew([Clone(client.config) EXCEPT !.DebugEnabled = enabled])

\* New, the loop over cfg.BackupEndpoints: backupCfg := cfg.Clone();
\* backupCfg.BaseURL = endpoint; New(backupCfg) is entered.  The goroutine
\* stack is bounded: the runtime ends the program when it is exceeded.
NewBackup ==
    /\ phase = "constructing"
    /\ LET f == newStack[Len(newStack)]
       IN  /\ f.i <= Len(f.cfg.BackupEndpoints)
           /\ LET backupCfg ==
                    [Clone(f.cfg) EXCEPT !.BaseURL = f.cfg.BackupEndpoints[f.i]]
              IN  IF Len(newStack) < MaxStackDepth
                  THEN /\ newStack' = Append(newStack, NewFrame(backupCfg))
                       /\ UNCHANGED phase
                  ELSE /\ phase' = "fatal"
                       /\ UNCHANGED newStack
    /\ UNCHANGED <<client, chain, doStack, transport, result, callsMade,
                   streak, sinceFail, armed, events, ctxDone>>
    /\ UNCHANGED retryVars

\* New, after the loop: the middlewares are appended and c is returned, to
\* the With* method or to the loop of the calling New
NewReturn ==
    /\ phase = "constructing"
    /\ LET f == newStack[Len(newStack)]
           c == NewClient(f.cfg, f.backups)
       IN  /\ f.i > Len(f.cfg.BackupEndpoints)
           /\ IF Len(newStack) = 1
              THEN /\ client' = c
                   /\ phase' = "ready"
                   /\ newStack' = <<>>
              ELSE /\ LET p == newStack[Len(newStack) - 1]
                      IN  newStack' =
                            [SubSeq(newStack, 1, Len(newStack) - 1)
                                EXCEPT ![Len(newStack) - 1] =
                                    [p EXCEPT !.i = p.i + 1,
                                              !.backups = Append(p.backups, c)]]
                   /\ UNCHANGED <<client, phase>>
    /\ UNCHANGED <<chain, doStack, transport, result, callsMade,
                   streak, sinceFail, armed, events, ctxDone>>
    /\ UNCHANGED retryVars

(***************************************************************************)
(* client.do and client.executeRequest                                     *)
(***************************************************************************)
\* the URLs a server listens on: x and y for the clients a With* chain
\* builds; p, the load-balancer endpoint l, the backups b1, b2, ... and a
\* server a that a call names by its absolute URL, for the clients do is
\* explored on
OtherServers ==
    {"http://l/", "http://a/"}
        \cup {"http://b" \o Itoa(k) \o "/" : k \in 1..MaxBackups}

AbsoluteURLs == {"http://x/", "http://y/", "http://p/"} \cup OtherServers

\* a string url.Parse rejects
Unparsable == {":bad"}

\* the error of url.Parse
ParseError(u) == Errorf("parse \"" \o u \o "\": missing protocol scheme")

\* ctx.Err() of a cancelled context
Canceled == Errorf("context canceled")

\* url.ResolveReference on the URLs explored: an absolute reference stands,
\* a path is resolved against a base that has no path
ResolveReference(base, rel) == IF rel \in AbsoluteURLs THEN rel ELSE base \o rel

\* what c.loadBalancer.NextEndpoint() can return: an endpoint of the pool;
\* without a load balancer "" stands for the call that is not made
Endpoints(c) ==
    IF c.loadBalancer = <<>> THEN {""}
    ELSE {c.loadBalancer[i] : i \in 1..Len(c.loadBalancer)}

\* a mutant: the base URL is preferred to the load balancer's endpoint
buildURLBaseFirst(c, urlStr, endpoint) ==
    IF urlStr \in Unparsable THEN [url |-> "", err |-> ParseError(urlStr)]
    ELSE IF c.config.BaseURL # ""
    THEN [url |-> ResolveReference(c.config.BaseURL, urlStr), err |-> NilErr]
    ELSE IF endpoint # ""
    THEN [url |-> ResolveReference(endpoint, urlStr), err |-> NilErr]
    ELSE [url |-> urlStr, err |-> NilErr]

\* client.buildURLWithLoadBalancing, endpoint being what NextEndpoint
\* returned: [url, err]
buildURLWithLoadBalancing(c, urlStr, endpoint) ==
    IF endpoint # ""
    THEN IF urlStr \in Unparsable
         THEN [url |-> "", err |-> ParseError(urlStr)]
         ELSE [url |-> ResolveReference(endpoint, urlStr), err |-> NilErr]
    ELSE IF c.config.BaseURL = "" THEN [url |-> urlStr, err |-> NilErr]
    ELSE IF urlStr \in Unparsable
         THEN [url |-> "", err |-> ParseError(urlStr)]
         ELSE [url |-> ResolveReference(c.config.BaseURL, urlStr), err |-> NilErr]

\* what httpClient.Do can give for a URL: a response or an error
Response(status, body) ==
    [kind |-> "resp", StatusCode |-> status, body |-> body, err |-> NilErr]

TransportError(text) ==
    [kind |-> "error", StatusCode |-> 0, body |-> "", err |-> Errorf(text)]

\* the servers of the environment: the backup and load-balanced servers
\* and the server a answer or fail with a 5xx, the server "http://p/"
\* answers or is unreachable, the other servers can do any of these and
\* reject the request with a 4xx
TransportOutcomes(url) ==
    IF url \in OtherServers
    THEN { Response(200, "ok"), Response(500, "boom") }
    ELSE IF url = "http://p/"
    THEN { Response(200, "ok"), TransportError("connection refused") }
    ELSE IF url \in AbsoluteURLs
    THEN { Response(200, "ok"), Response(404, "Not found"),
           Response(500, "boom"), TransportError("connection refused") }
    ELSE { TransportError("unsupported protocol scheme") }

\* httpClient.Do(req) on a request made with ctx: once ctx is cancelled Do
\* returns its error
DoOutcomes(url) ==
    IF ctxDone THEN { TransportError("context canceled") }
    ELSE TransportOutcomes(url)

\* Before of a middleware: metrics, tracing and debug return nil, a circuit
\* breaker that is Open within its timeout returns its error
MiddlewareBefore(mw) ==
    IF mw = "breaker-open" THEN Errorf("circuit breaker is open") ELSE NilErr

\* the first loop of executeRequest: the first error a Before returns
BeforeError(c) ==
    LET failing == SelectSeq(c.middlewares, LAMBDA mw : MiddlewareBefore(mw) # NilErr)
    IN  IF failing = <<>> THEN NilErr ELSE MiddlewareBefore(failing[1])

\* the loop over c.config.ResponseInterceptors: the interceptors called and
\* the first error one of them returns
ResponseInterceptorsRun(c) ==
    LET ris == c.config.ResponseInterceptors
        failing == {i \in 1..Len(ris) : ris[i].fails}
        first == CHOOSE i \in failing : \A j \in failing : i <= j
    IN  IF failing = {}
        THEN [called |-> Len(ris), err |-> NilErr]
        ELSE [called |-> first,
              err |-> ErrorfW("response interceptor failed: ",
                              Errorf("rejected by " \o ris[first].mark))]

\* executeRequest from httpClient.Do on: tr is what Do returned.  The result
\* is data and err, with the stage that produced them, the After hooks and
\* the response interceptors called on the way.
executeRequest(c, tr) ==
    IF tr.kind = "error"
    THEN [data |-> NilData, err |-> ErrorfW("request failed: ", tr.err),
          stage |-> "transport", after |-> 0, intercepted |-> 0]
    ELSE LET ri == ResponseInterceptorsRun(c)
             hooks == [after |-> Len(c.middlewares), intercepted |-> ri.called]
         IN  IF ri.err # NilErr
             THEN [data |-> NilData, err |-> ri.err, stage |-> "interceptor",
                   after |-> hooks.after, intercepted |-> hooks.intercepted]
             ELSE IF tr.StatusCode >= 400
             THEN [data |-> NilData,
                   err |-> Errorf("HTTP " \o Itoa(tr.StatusCode) \o ": " \o tr.body),
                   stage |-> "status",
                   after |-> hooks.after, intercepted |-> hooks.intercepted]
             ELSE [data |-> tr.body, err |-> NilErr, stage |-> "ok",
                   after |-> hooks.after, intercepted |-> hooks.intercepted]

\* a frame of do
DoFrame(c, urlStr, body) ==
    [c |-> c, pc |-> "start", urlStr |-> urlStr, body |-> body, fullURL |-> "",
     data |-> NilData, err |-> NilErr, bi |-> 0]

Top == doStack[Len(doStack)]

SetTop(f) == [doStack EXCEPT ![Len(doStack)] = f]

\* which client of the top-level call the running do belongs to: <<>> is
\* the client called, <<k>> its k-th backup client, and so on
By == [i \in 1..(Len(doStack) - 1) |-> doStack[i].bi]

\* an entry of events: kind is "interceptor" (n-th request interceptor
\* called, text the header the earlier ones left), "sign", "attempt" (one
\* executeRequest: text the URL, stage where it returned, status of the
\* response, after and n the After hooks and response interceptors called),
\* "sleep", "executed" (Execute returned), "backup" (do of the n-th backup
\* client called) or "returned" (do returned); done tells whether the
\* context was cancelled by then, err is the error of the step
Event(kind, by, n, text, err) ==
    [kind |-> kind, by |-> by, done |-> ctxDone, n |-> n, text |-> text,
     err |-> err, stage |-> "", status |-> 0, after |-> 0]

AttemptEvent(by, url, tr, x) ==
    [kind |-> "attempt", by |-> by, done |-> ctxDone, n |-> x.intercepted,
     text |-> url, err |-> x.err, stage |-> x.stage,
     status |-> tr.StatusCode, after |-> x.after]

\* a mutant: the loop goes on after an interceptor has returned an error
InterceptorAbortsNever(err) == FALSE

\* if err := interceptor(req); err != nil { return ... }
InterceptorAborts(err) == err # NilErr

RECURSIVE RunRequestInterceptors(_, _, _, _)
\* the loop over c.config.RequestInterceptors from the i-th on, seen being
\* the header the earlier interceptors have written on req; an interceptor
\* either writes its mark or returns an error.  The result is the events
\* and the error do returns, if any.
RunRequestInterceptors(ics, i, seen, by) ==
    IF i > Len(ics) THEN [evs |-> <<>>, err |-> NilErr]
    ELSE LET err == IF ics[i].fails THEN Errorf("denied by " \o ics[i].mark)
                    ELSE NilErr
             ev == Event("interceptor", by, i, seen, err)
             rest == RunRequestInterceptors(
                         ics, i + 1,
                         IF ics[i].fails THEN seen ELSE seen \o ics[i].mark, by)
         IN  IF InterceptorAborts(err)
             THEN [evs |-> <<ev>>,
                   err |-> ErrorfW("request interceptor failed: ", err)]
             ELSE [evs |-> <<ev>> \o rest.evs, err |-> rest.err]

\* a mutant: the rate-limit wait comes before the whitelist check
StepsWaitFirst == <<"wait", "whitelist", "resolve", "marshal", "request",
                    "interceptors", "sign">>

\* the steps of do before retryStrategy.Execute, in the order of the code
Steps == <<"whitelist", "wait", "resolve", "marshal", "request",
           "interceptors", "sign">>

\* one step of do: the events it logs and the error it returns, if any.
\* allowed: a resolved address of the host is whitelisted; endpoint: what
\* NextEndpoint returns; signed: rsa.SignPKCS1v15 succeeds.  A step a
\* client has not configured logs nothing.
Step(name, c, urlStr, body, by, allowed, signed, endpoint) ==
    LET one(kind, n, text, err) ==
            [evs |-> <<Event(kind, by, n, text, err)>>, err |-> err]
        none == [evs |-> <<>>, err |-> NilErr]
        built == buildURLWithLoadBalancing(c, urlStr, endpoint)
    IN  CASE name = "whitelist" ->
               IF Len(c.ipWhitelist) = 0 THEN none
               ELSE one("whitelist", 0, urlStr,
                        IF urlStr \in Unparsable THEN ParseError(urlStr)
                        ELSE IF allowed THEN NilErr
                        ELSE Errorf("IP not whitelisted for host"))
          [] name = "wait" ->
               IF ~c.rateLimiter THEN none
               ELSE one("wait", 0, "",
                        IF ctxDone
                        THEN ErrorfW("rate limit exceeded: ", Canceled)
                        ELSE NilErr)
          [] name = "resolve" ->
               [evs |-> (IF c.loadBalancer # <<>>
                         THEN <<Event("select", by, 0, endpoint, NilErr)>>
                         ELSE <<>>)
                        \o <<Event("resolve", by, 0, urlStr,
                                   IF built.err # NilErr
                                   THEN ErrorfW("invalid URL: ", built.err)
                                   ELSE NilErr)>>,
                err |-> IF built.err # NilErr
                        THEN ErrorfW("invalid URL: ", built.err) ELSE NilErr]
          [] name = "marshal" ->
               IF body = "nil" THEN none
               ELSE one("marshal", 0, body,
                        IF body = "chan"
                        THEN ErrorfW("marshal request body: ",
                                     Errorf("json: unsupported type: chan int"))
                        ELSE NilErr)
          [] name = "request" ->
               IF built.url \in Unparsable
               THEN [evs |-> <<>>,
                     err |-> ErrorfW("create request: ", ParseError(built.url))]
               ELSE none
          [] name = "interceptors" ->
               RunRequestInterceptors(c.config.RequestInterceptors, 1, "", by)
          [] name = "sign" ->
               IF ~c.requestSigner THEN none
               ELSE one("sign", 0, "",
                        IF signed THEN NilErr
                        ELSE ErrorfW("request signing failed: ",
                               ErrorfW("failed to sign request: ",
                                 Errorf("crypto/rsa: message too long for RSA key size"))))

RECURSIVE RunSteps(_, _, _, _, _, _, _, _, _)
\* the steps from the k-th on: each returns from do with its error
RunSteps(steps, k, c, urlStr, body, by, allowed, signed, endpoint) ==
    IF k > Len(steps) THEN [evs |-> <<>>, err |-> NilErr]
    ELSE LET this == Step(steps[k], c, urlStr, body, by, allowed, signed, endpoint)
             rest == RunSteps(steps, k + 1, c, urlStr, body, by,
                              allowed, signed, endpoint)
         IN  IF this.err # NilErr THEN this
             ELSE [evs |-> this.evs \o rest.evs, err |-> rest.err]

\* do from its start to the call of retryStrategy.Execute.  The result is
\* the error do returns, if any, the URL of the request and the events.
Prepare(c, urlStr, body, by, allowed, signed, endpoint) ==
    LET ran == RunSteps(Steps, 1, c, urlStr, body, by, allowed, signed, endpoint)
    IN  [err |-> ran.err,
         fullURL |-> IF ran.err # NilErr THEN ""
                     ELSE buildURLWithLoadBalancing(c, urlStr, endpoint).url,
         evs |-> ran.evs]

\* the last httpClient.Do of the call gave a response with status >= 500
Outcome5xx ==
    /\ transport # <<>>
    /\ transport[Len(transport)].out.kind = "resp"
    /\ transport[Len(transport)].out.StatusCode >= 500

\* a top-level call begins: c.do(ctx, method, urlStr, body)
StartCall(urlStr, body) ==
    /\ phase = "ready"
    /\ doStack = <<>>
    /\ doStack' = <<DoFrame(client, urlStr, body)>>
    /\ callsMade' = callsMade + 1
    /\ transport' = <<>>
    /\ events' = <<>>
    /\ result' = [data |-> NilData, err |-> NilErr]
    /\ armed' = ( /\ streak >= client.config.CircuitBreakerThreshold
                  /\ sinceFail < client.config.CircuitBreakerTimeout
                  /\ sinceFail < MaxElapsed )
    /\ UNCHANGED <<phase, client, newStack, chain, streak, sinceFail>>
    /\ UNCHANGED retryVars

\* client.GET(urlStr) is called on the chain's client: the context is
\* context.Background(), the body nil
CallGET ==
    /\ callsMade < MaxCalls
    /\ \E urlStr \in {"/", "http://x/"} : StartCall(urlStr, "nil")
    /\ ctxDone' = FALSE

\* do up to the retry: when every step before it succeeds the request is
\* created and retryStrategy.Execute entered, otherwise do returns the error
DoPrepare ==
    /\ doStack # <<>>
    /\ Top.pc = "start"
    /\ \E allowed \in BOOLEAN, signed \in BOOLEAN, endpoint \in Endpoints(Top.c) :
          LET r == Prepare(Top.c, Top.urlStr, Top.body, By, allowed, signed, endpoint)
          IN  /\ events' = events \o r.evs
              /\ IF r.err # NilErr
                 THEN /\ doStack' = SetTop([Top EXCEPT !.pc = "return",
                                                       !.err = r.err])
                      /\ UNCHANGED retryVars
                 ELSE /\ doStack' = SetTop([Top EXCEPT !.pc = "execute",
                                                       !.fullURL = r.fullURL])
                      /\ ExecuteEnter(Top.c.retryStrategy)
    /\ UNCHANGED <<phase, client, newStack, chain, transport, result, callsMade,
                   streak, sinceFail, armed, ctxDone>>

\* Execute invokes executeRequest(req)
DoAttempt ==
    /\ doStack # <<>>
    /\ Top.pc = "execute"
    /\ IF BeforeError(Top.c) # NilErr
       THEN /\ ExecuteAttempt([data |-> NilData, err |-> BeforeError(Top.c)])
            /\ events' = Append(events,
                   [Event("attempt", By, 0, Top.fullURL, BeforeError(Top.c))
                       EXCEPT !.stage = "before"])
            /\ UNCHANGED transport
       ELSE \E tr \in DoOutcomes(Top.fullURL) :
               LET x == executeRequest(Top.c, tr)
               IN  /\ ExecuteAttempt([data |-> x.data, err |-> x.err])
                   /\ events' = Append(events, AttemptEvent(By, Top.fullURL, tr, x))
                   /\ transport' = Append(transport, [url |-> Top.fullURL, out |-> tr])
    /\ UNCHANGED <<phase, client, newStack, chain, doStack, result, callsMade,
                   streak, sinceFail, armed, ctxDone>>

\* the backoff sleep of Execute; the time it takes passes
DoSleep ==
    /\ doStack # <<>>
    /\ Top.pc = "execute"
    /\ ExecuteSleep
    /\ sinceFail' = Min(sinceFail + calculateDelay(e, attempt), MaxElapsed)
    /\ events' = Append(events, Event("sleep", By, calculateDelay(e, attempt), "", NilErr))
    /\ UNCHANGED <<phase, client, newStack, chain, doStack, transport, result,
                   callsMade, streak, armed, ctxDone>>

DoExhausted ==
    /\ doStack # <<>>
    /\ Top.pc = "execute"
    /\ ExecuteExhausted
    /\ UNCHANGED clientVars

\* a mutant: the backup clients are tried whatever Execute returned
FailoverAlways(err, backupClients) == Len(backupClients) > 0

\* if err != nil && len(c.backupClients) > 0
Failover(err, backupClients) == err # NilErr /\ Len(backupClients) > 0

\* Execute has returned data, err: with an error and backup clients, the
\* loop over c.backupClients is entered; otherwise do returns data, err
DoFinish ==
    /\ doStack # <<>>
    /\ Top.pc = "execute"
    /\ rpc = "done"
    /\ IF Failover(ret.err, Top.c.backupClients)
       THEN /\ doStack' =
                Append(SetTop([Top EXCEPT !.pc = "backups", !.data = ret.data,
                                          !.err = ret.err, !.bi = 1]),
                       DoFrame(Top.c.backupClients[1], Top.urlStr, Top.body))
            /\ events' = events \o <<Event("executed", By, 0, "", ret.err),
                                     Event("backup", By, 1, "", NilErr)>>
       ELSE /\ doStack' = SetTop([Top EXCEPT !.pc = "return", !.data = ret.data,
                                             !.err = ret.err])
            /\ events' = Append(events, Event("executed", By, 0, "", ret.err))
    /\ ExecuteLeave
    /\ UNCHANGED <<phase, client, newStack, chain, transport, result, callsMade,
                   streak, sinceFail, armed, ctxDone>>

\* do returns: to the caller of GET, or to the loop over the backup clients
\* of the calling do, which returns the backup's data on success, tries the
\* next backup on failure and returns its own data, err after the last one
DoReturn ==
    /\ doStack # <<>>
    /\ Top.pc = "return"
    /\ LET retEv == Event("returned", By, 0, Top.data, Top.err)
       IN  IF Len(doStack) = 1
           THEN /\ result' = [data |-> Top.data, err |-> Top.err]
                /\ doStack' = <<>>
                /\ events' = Append(events, retEv)
                /\ streak' = IF Outcome5xx THEN streak + 1 ELSE 0
                /\ sinceFail' = IF Outcome5xx THEN 0 ELSE sinceFail
           ELSE /\ LET p == doStack[Len(doStack) - 1]
                       rest == SubSeq(doStack, 1, Len(doStack) - 1)
                       setP(f) == [rest EXCEPT ![Len(rest)] = f]
                       upper == SubSeq(By, 1, Len(By) - 1)
                   IN  IF Top.err = NilErr
                       THEN /\ doStack' = setP([p EXCEPT !.pc = "return",
                                                         !.data = Top.data,
                                                         !.err = NilErr])
                            /\ events' = Append(events, retEv)
                       ELSE IF p.bi < Len(p.c.backupClients)
                            THEN /\ doStack' =
                                    Append(setP([p EXCEPT !.bi = p.bi + 1]),
                                           DoFrame(p.c.backupClients[p.bi + 1],
                                                   p.urlStr, p.body))
                                 /\ events' = events \o
                                       <<retEv,
                                         Event("backup", upper, p.bi + 1, "", NilErr)>>
                            ELSE /\ doStack' = setP([p EXCEPT !.pc = "return"])
                                 /\ events' = Append(events, retEv)
                /\ UNCHANGED <<result, streak, sinceFail>>
    /\ UNCHANGED <<phase, client, newStack, chain, transport, callsMade, armed,
                   ctxDone>>
    /\ UNCHANGED retryVars

\* time passes while no call is running
Tick ==
    /\ phase = "ready"
    /\ doStack = <<>>
    /\ sinceFail < MaxElapsed
    /\ sinceFail' = sinceFail + 1
    /\ UNCHANGED <<phase, client, newStack, chain, doStack, transport, result,
                   callsMade, streak, armed, events, ctxDone>>
    /\ UNCHANGED retryVars

\* the clients explored: no optional step, one of them, the whitelist with
\* the rate limiter and a load balancer, or interceptors together with a
\* signer or with the metrics middleware; "lb-empty" is a load balancer
\* whose NextEndpoint returns "", "nobase" a client without base URL
Profiles ==
    { {}, {"lb"}, {"ratelimit"}, {"whitelist"}, {"breaker"},
      {"lb-empty"}, {"nobase"}, {"whitelist", "ratelimit", "lb"},
      {"reqint", "signing"}, {"reqint-fail", "signing"},
      {"respint", "metrics"}, {"respint-fail", "metrics"} }

\* the calls explored: [urlStr, body]; the body is nil, a value
\* json.Marshal encodes or one it rejects
Calls ==
    { [urlStr |-> "/", body |-> "nil"], [urlStr |-> ":bad", body |-> "nil"],
      [urlStr |-> "/", body |-> "chan"],
      [urlStr |-> "http://a/", body |-> "json"] }

\* an interceptor as the model sees it: it writes its mark on what it is
\* given, or returns an error
Interceptor(mark, fails) == [mark |-> mark, fails |-> fails]

\* the configuration with the steps fs, Retries = r and n backup endpoints
DoConfig(fs, r, n) ==
    [Default EXCEPT
        !.BaseURL = IF "nobase" \in fs THEN "" ELSE "http://p",
        !.Retries = r,
        !.BackupEndpoints = [k \in 1..n |-> "http://b" \o Itoa(k)],
        !.LoadBalancerEndpoints = IF "lb" \in fs THEN <<"http://l">>
                                  ELSE IF "lb-empty" \in fs THEN <<"">>
                                  ELSE <<>>,
        !.RateLimitRPS = IF "ratelimit" \in fs THEN 1 ELSE 0,
        !.IPWhitelist = IF "whitelist" \in fs THEN <<"10.0.0.1">> ELSE <<>>,
        !.RequestSigningKey = IF "signing" \in fs THEN "key" ELSE "",
        !.MetricsEnabled = "metrics" \in fs,
        !.RequestInterceptors =
            IF "reqint-fail" \in fs
            THEN <<Interceptor("a", FALSE), Interceptor("b", TRUE),
                   Interceptor("c", FALSE)>>
            ELSE IF "reqint" \in fs
            THEN <<Interceptor("a", FALSE), Interceptor("b", FALSE)>>
            ELSE <<>>,
        !.ResponseInterceptors =
            IF "respint-fail" \in fs
            THEN <<Interceptor("r", FALSE), Interceptor("s", TRUE)>>
            ELSE IF "respint" \in fs THEN <<Interceptor("r", FALSE)>>
            ELSE <<>>]

\* the client do is called on.  Its backup clients are what the loop of New
\* appends, New(backupCfg) with backupCfg := cfg.Clone() and
\* backupCfg.BaseURL = endpoint, each taken without backup clients of its
\* own; with "breaker" its middlewares hold a circuit breaker that is Open.
DoClient(fs, r, n) ==
    LET cfg == DoConfig(fs, r, n)
        backups == [k \in 1..n |->
                       NewClient([Clone(cfg) EXCEPT
                                     !.BaseURL = cfg.BackupEndpoints[k]], <<>>)]
        c == NewClient(cfg, backups)
    IN  IF "breaker" \in fs
        THEN [c EXCEPT !.middlewares = <<"breaker-open">> \o @]
        ELSE c

\* c.do(ctx, method, urlStr, body) is called, once, with a context that
\* can be cancelled
CallDo ==
    /\ callsMade = 0
    /\ \E call \in Calls : StartCall(call.urlStr, call.body)
    /\ ctxDone' = FALSE

\* the caller cancels the context of the running call, while the client
\* called is at work on it (none of its backup clients is)
Cancel ==
    /\ Len(doStack) = 1
    /\ ~ctxDone
    /\ ctxDone' = TRUE
    /\ UNCHANGED <<phase, client, newStack, chain, doStack, transport, result,
                   callsMade, streak, sinceFail, armed, events>>
    /\ UNCHANGED retryVars

(***************************************************************************)
(* loadbalancer: the four strategies behind one sync.RWMutex each          *)
(***************************************************************************)
RoundRobin == "round-robin"
Random == "random"
WeightedRandom == "weighted-random"
LeastConn == "least-conn"

Strategies == {RoundRobin, Random, WeightedRandom, LeastConn}

\* the i-th endpoint URL the callers use
EndpointURL(i) == "http://e" \o Itoa(i)

LBProcs == 1..NumProcs

\* the pool the constructors build: Weight 1 (NewWeightedRandomLB),
\* Connections 0 (NewLeastConnLB)
NewEndpoint(url) == [URL |-> url, Weight |-> 1, Connections |-> 0]

NewPool(n) == [i \in 1..n |-> NewEndpoint(EndpointURL(i))]

URLsOf(pool) == { pool[i].URL : i \in 1..Len(pool) }

\* sync.RWMutex: RLock is granted while no goroutine holds Lock
CanRLock(mu) == mu.writer = 0

\* sync.RWMutex: Lock is granted while nobody holds the mutex
CanLock(mu) == mu.writer = 0 /\ mu.readers = {}

\* leastConnLB.NextEndpoint takes mu.Lock, the other three mu.RLock
NextTakesLock(strategy) == strategy = LeastConn

\* a mutant: the cursor is read, not advanced
AddUint64Lost(cur) == cur

\* atomic.AddUint64(&rr.current, 1): the new value (the cursor stays far
\* below 2^64 in every run explored)
AddUint64(cur) == cur + 1

\* a mutant: the index does not follow the cursor
RoundRobinIndexStuck(cur, n) == 0

\* roundRobinLB.NextEndpoint: index := <new cursor> % uint64(len(rr.endpoints))
RoundRobinIndex(cur, n) == cur % n

\* weightedRandomLB.NextEndpoint: totalWeight
RECURSIVE TotalWeight(_)
TotalWeight(pool) ==
    IF pool = <<>> THEN 0 ELSE pool[1].Weight + TotalWeight(Tail(pool))

\* weightedRandomLB.NextEndpoint: the walk over the cumulative weights; the
\* 0-based index of the endpoint that owns target, 0 when none does
RECURSIVE WeightedWalk(_, _, _, _)
WeightedWalk(pool, i, cur, target) ==
    IF i > Len(pool) THEN 0
    ELSE IF cur + pool[i].Weight > target THEN i - 1
         ELSE WeightedWalk(pool, i + 1, cur + pool[i].Weight, target)

\* a mutant: the scan keeps the last minimum (<= for <)
LeastConnScanLastMin(pool, i, minConn, selectedIndex) ==
    (CHOOSE k \in 1..Len(pool) :
        /\ \A j \in 1..Len(pool) : pool[k].Connections <= pool[j].Connections
        /\ \A j \in (k + 1)..Len(pool) : pool[k].Connections < pool[j].Connections)
    - 1

\* leastConnLB.NextEndpoint: the scan for the first minimum of Connections
RECURSIVE LeastConnScan(_, _, _, _)
LeastConnScan(pool, i, minConn, selectedIndex) ==
    IF i > Len(pool) THEN selectedIndex
    ELSE IF minConn = -1 \/ pool[i].Connections < minConn
         THEN LeastConnScan(pool, i + 1, pool[i].Connections, i - 1)
         ELSE LeastConnScan(pool, i + 1, minConn, selectedIndex)

\* a mutant: every entry with that URL goes (no break)
RemoveEvery(pool, url) == SelectSeq(pool, LAMBDA ep : ep.URL # url)

\* RemoveEndpoint: the pool without the first entry whose URL is url
RECURSIVE RemoveFirst(_, _)
RemoveFirst(pool, url) ==
    IF pool = <<>> THEN <<>>
    ELSE IF pool[1].URL = url THEN Tail(pool)
         ELSE <<pool[1]>> \o RemoveFirst(Tail(pool), url)

IdleProc ==
    [op |-> "idle", pc |-> "idle", arg |-> "", index |-> -1, res |-> "",
     poolSel |-> {}, member |-> TRUE, returned |-> FALSE]

\* another goroutine is inside NextEndpoint and has not yet drawn its number
RandRace(p) ==
    \E q \in LBProcs \ {p} : lbProc[q].op = "next" /\ lbProc[q].pc = "locked"

\* NextEndpoint is called and gets its lock
NextBegin(p) ==
    /\ lbPanic = "none"
    /\ lbProc[p].pc = "idle"
    /\ lbStarted < MaxLBCalls
    /\ IF NextTakesLock(lbStrategy)
       THEN /\ CanLock(lbMu)
            /\ lbMu' = [lbMu EXCEPT !.writer = p]
       ELSE /\ CanRLock(lbMu)
            /\ lbMu' = [lbMu EXCEPT !.readers = @ \cup {p}]
    /\ lbProc' = [lbProc EXCEPT ![p] = [IdleProc EXCEPT !.op = "next", !.pc = "locked"]]
    /\ lbStarted' = lbStarted + 1
    /\ UNCHANGED <<lbStrategy, endpoints, current, lbPanic, lbMutated, selLog, returned>>

\* the goroutine p has selected the 0-based index idx
Selected(p, idx) ==
    lbProc' = [lbProc EXCEPT ![p] = [@ EXCEPT !.pc = "selected", !.index = idx,
                                              !.poolSel = URLsOf(endpoints)]]

\* NextEndpoint up to the selection of an index
NextSelect(p) ==
    /\ lbPanic = "none"
    /\ lbProc[p].op = "next"
    /\ lbProc[p].pc = "locked"
    /\ IF Len(endpoints) = 0
       THEN /\ Selected(p, -1)
            /\ UNCHANGED <<endpoints, current, lbPanic, selLog>>
       ELSE CASE lbStrategy = RoundRobin ->
                    LET idx == RoundRobinIndex(AddUint64(current), Len(endpoints))
                    IN  /\ current' = AddUint64(current)
                        /\ Selected(p, idx)
                        /\ selLog' = IF lbMutated = 0
                                     THEN Append(selLog, endpoints[idx + 1].URL)
                                     ELSE selLog
                        /\ UNCHANGED <<endpoints, lbPanic>>
              [] lbStrategy = Random ->
                    \/ /\ \E idx \in 0..(Len(endpoints) - 1) : Selected(p, idx)
                       /\ UNCHANGED <<endpoints, current, lbPanic, selLog>>
                    \/ /\ RandRace(p)
                       /\ lbPanic' = "rand"
                       /\ UNCHANGED <<endpoints, current, lbProc, selLog>>
              [] lbStrategy = WeightedRandom ->
                    IF TotalWeight(endpoints) = 0
                    THEN /\ Selected(p, -1)
                         /\ UNCHANGED <<endpoints, current, lbPanic, selLog>>
                    ELSE \/ /\ \E target \in 0..(TotalWeight(endpoints) - 1) :
                                  Selected(p, WeightedWalk(endpoints, 1, 0, target))
                            /\ UNCHANGED <<endpoints, current, lbPanic, selLog>>
                         \/ /\ RandRace(p)
                            /\ lbPanic' = "rand"
                            /\ UNCHANGED <<endpoints, current, lbProc, selLog>>
              [] lbStrategy = LeastConn ->
                    LET idx == LeastConnScan(endpoints, 1, -1, 0)
                    IN  /\ endpoints' = [endpoints EXCEPT ![idx + 1].Connections = @ + 1]
                        /\ Selected(p, idx)
                        /\ UNCHANGED <<current, lbPanic, selLog>>
    /\ UNCHANGED <<lbStrategy, lbMu, lbStarted, lbMutated, returned>>

\* what a caller of NextEndpoint may rely on: "" only from a pool that was
\* empty at the selection, else an endpoint of the pool at the selection and
\* at the return
Member(res, poolSel, poolRet) ==
    IF res = "" THEN poolSel = {} ELSE res \in poolSel /\ res \in poolRet

\* NextEndpoint returns "" or endpoints[index] and gives its lock back
NextReturn(p) ==
    /\ lbPanic = "none"
    /\ lbProc[p].op = "next"
    /\ lbProc[p].pc = "selected"
    /\ LET idx == lbProc[p].index
       IN  IF idx >= 0 /\ idx + 1 > Len(endpoints)
           THEN /\ lbPanic' = "index"
                /\ UNCHANGED <<lbProc, lbMu, returned>>
           ELSE LET res == IF idx < 0 THEN "" ELSE endpoints[idx + 1].URL
                IN  /\ lbProc' = [lbProc EXCEPT ![p] =
                                    [@ EXCEPT !.op = "idle", !.pc = "idle", !.res = res,
                                              !.index = -1, !.poolSel = {},
                                              !.member = Member(res, lbProc[p].poolSel,
                                                                URLsOf(endpoints)),
                                              !.returned = TRUE]]
                    /\ lbMu' = [readers |-> lbMu.readers \ {p},
                                writer |-> IF lbMu.writer = p THEN 0 ELSE lbMu.writer]
                    /\ returned' =
                          IF lbStrategy = RoundRobin /\ lbMutated = 0 /\ idx >= 0
                          THEN [returned EXCEPT ![res] = @ + 1]
                          ELSE returned
                    /\ UNCHANGED lbPanic
    /\ UNCHANGED <<lbStrategy, endpoints, current, lbStarted, lbMutated, selLog>>

\* AddEndpoint(url) or RemoveEndpoint(url) is called and gets mu.Lock
MutateBegin(p, op, url) ==
    /\ lbPanic = "none"
    /\ lbProc[p].pc = "idle"
    /\ lbMutated < MaxMutations
    /\ CanLock(lbMu)
    /\ lbMu' = [lbMu EXCEPT !.writer = p]
    /\ lbProc' = [lbProc EXCEPT ![p] = [IdleProc EXCEPT !.op = op, !.pc = "locked",
                                                        !.arg = url]]
    /\ lbMutated' = lbMutated + 1
    /\ UNCHANGED <<lbStrategy, endpoints, current, lbPanic, lbStarted, selLog, returned>>

AddBegin(p) ==
    /\ Len(endpoints) < MaxPool
    /\ \E i \in 1..(MaxPool + 1) : MutateBegin(p, "add", EndpointURL(i))

RemoveBegin(p) ==
    \E i \in 1..(MaxPool + 1) : MutateBegin(p, "remove", EndpointURL(i))

\* AddEndpoint appends; mu.Unlock
AddApply(p) ==
    /\ lbProc[p].op = "add"
    /\ lbProc[p].pc = "locked"
    /\ endpoints' = Append(endpoints, NewEndpoint(lbProc[p].arg))
    /\ lbProc' = [lbProc EXCEPT ![p] = [@ EXCEPT !.op = "idle", !.pc = "idle"]]
    /\ lbMu' = [lbMu EXCEPT !.writer = 0]
    /\ UNCHANGED <<lbStrategy, current, lbPanic, lbStarted, lbMutated, selLog, returned>>

\* RemoveEndpoint drops the first entry with that URL, if any; mu.Unlock
RemoveApply(p) ==
    /\ lbProc[p].op = "remove"
    /\ lbProc[p].pc = "locked"
    /\ endpoints' = RemoveFirst(endpoints, lbProc[p].arg)
    /\ lbProc' = [lbProc EXCEPT ![p] = [@ EXCEPT !.op = "idle", !.pc = "idle"]]
    /\ lbMu' = [lbMu EXCEPT !.writer = 0]
    /\ UNCHANGED <<lbStrategy, current, lbPanic, lbStarted, lbMutated, selLog, returned>>

(***************************************************************************)
(* internal/batch/batch.go: BatchRequest                                   *)
(***************************************************************************)
\* the zero value of BatchResponse that make([]BatchResponse, n) holds
ZeroResponse == [Index |-> 0, Data |-> NilData, Error |-> NilErr]

\* BatchRequest.executeRequest from client.Do on: tr is what Do returned;
\* a status error carries resp.Status, not the body
batchExecuteRequest(tr) ==
    IF tr.kind = "error"
    THEN [data |-> NilData, err |-> ErrorfW("request failed: ", tr.err)]
    ELSE IF tr.StatusCode >= 400
         THEN [data |-> NilData,
               err |-> Errorf("HTTP " \o Itoa(tr.StatusCode) \o ": "
                                 \o Itoa(tr.StatusCode) \o " " \o tr.body)]
         ELSE [data |-> tr.body, err |-> NilErr]

\* what the servers of the batch items answer
BatchOutcomes ==
    { Response(200, "ok"), Response(500, "Internal Server Error"),
      TransportError("connection refused") }

\* Add: the item is appended with Index = len(br.requests)
BatchAdd ==
    /\ bpc = "adding"
    /\ Len(requests) < MaxItems
    /\ requests' = Append(requests, [Method |-> "GET", URL |-> "http://x/",
                                     Index |-> Len(requests)])
    /\ UNCHANGED <<bpc, responses, wg, task, bret>>

\* ExecuteContext is called: requests is copied, responses is made
BatchExecute ==
    /\ bpc = "adding"
    /\ bpc' = "spawning"
    /\ responses' = [i \in 1..Len(requests) |-> ZeroResponse]
    /\ task' = <<>>
    /\ UNCHANGED <<requests, wg, bret>>

\* one iteration of the loop: wg.Add(1); go func(i, req)
BatchSpawn ==
    /\ bpc = "spawning"
    /\ Len(task) < Len(requests)
    /\ wg' = wg + 1
    /\ task' = Append(task, [pc |-> "start", index |-> Len(task),
                             item |-> requests[Len(task) + 1],
                             tr |-> <<>>, data |-> NilData, err |-> NilErr])
    /\ UNCHANGED <<requests, bpc, responses, bret>>

\* the loop is over: wg.Wait() is reached
BatchSpawned ==
    /\ bpc = "spawning"
    /\ Len(task) = Len(requests)
    /\ bpc' = "waiting"
    /\ UNCHANGED <<requests, responses, wg, task, bret>>

\* a goroutine: data, err := br.executeRequest(ctx, item)
TaskExecute(i) ==
    /\ task[i].pc = "start"
    /\ \E tr \in BatchOutcomes :
          task' = [task EXCEPT ![i] =
                      [@ EXCEPT !.pc = "executed",
                                !.tr = tr,
                                !.data = batchExecuteRequest(tr).data,
                                !.err = batchExecuteRequest(tr).err]]
    /\ UNCHANGED <<requests, bpc, responses, wg, bret>>

\* the slot of responses a goroutine writes: responses[index]
ResponseSlot(t, resp) == t.index + 1

\* a goroutine: responses[index] = BatchResponse{...}; the deferred wg.Done()
TaskStore(i) ==
    /\ task[i].pc = "executed"
    /\ responses' = [responses EXCEPT ![ResponseSlot(task[i], responses)] =
                        [Index |-> task[i].item.Index, Data |-> task[i].data,
                         Error |-> task[i].err]]
    /\ wg' = wg - 1
    /\ task' = [task EXCEPT ![i] = [@ EXCEPT !.pc = "done"]]
    /\ UNCHANGED <<requests, bpc, bret>>

\* a mutant: Wait returns while one goroutine is still running
WaitReturnsEarly(counter) == counter <= 1

\* wg.Wait() returns when the counter is zero
WaitReturns(counter) == counter = 0

\* wg.Wait() has returned: return responses, nil
BatchReturn ==
    /\ bpc = "waiting"
    /\ WaitReturns(wg)
    /\ bpc' = "returned"
    /\ bret' = [n |-> Len(responses), err |-> NilErr]
    /\ UNCHANGED <<requests, responses, wg, task>>

(***************************************************************************)
(* internal/batch/batch.go: PipelineRequest                                *)
(***************************************************************************)
\* everything sent on ch so far, in the order of the sends
Sent == received \o ch

\* Add: the item is appended with Index = len(pr.requests)
PipelineAdd ==
    /\ ppc = "adding"
    /\ Len(prequests) < MaxItems
    /\ prequests' = Append(prequests, [Method |-> "GET", URL |-> "http://x/",
                                       Index |-> Len(prequests)])
    /\ UNCHANGED <<ppc, pindex, presponse, ch, chClosed, cancelled, received, atCancel>>

\* a mutant: the channel has room for one result less
ChanCapOneLess(reqs) == Len(reqs) - 1

\* ch := make(chan PipelineResponse, len(requests)): the capacity of ch
ChanCap(reqs) == Len(reqs)

\* ExecuteContext: requests is copied, ch is made, the goroutine starts
PipelineExecute ==
    /\ ppc = "adding"
    /\ ppc' = "loop"
    /\ ch' = <<>>
    /\ UNCHANGED <<prequests, pindex, presponse, chClosed, cancelled, received, atCancel>>

\* the goroutine: the next iteration of for _, req := range requests begins
\* and calls pr.executeRequest(ctx, req)
PipeIterate ==
    /\ ppc = "loop"
    /\ pindex < Len(prequests)
    /\ ppc' = "executing"
    /\ pindex' = pindex + 1
    /\ UNCHANGED <<prequests, presponse, ch, chClosed, cancelled, received, atCancel>>

\* what pr.client.Do gives: with ctx cancelled, the context's error
PipelineOutcomes(isCancelled) ==
    IF isCancelled THEN { TransportError("context canceled") } ELSE BatchOutcomes

\* the goroutine: executeRequest returns and response is built
PipeExecuted ==
    /\ ppc = "executing"
    /\ \E tr \in PipelineOutcomes(cancelled) :
          presponse' = [Index |-> prequests[pindex].Index,
                        Data |-> batchExecuteRequest(tr).data,
                        Error |-> batchExecuteRequest(tr).err]
    /\ ppc' = "select"
    /\ UNCHANGED <<prequests, pindex, ch, chClosed, cancelled, received, atCancel>>

\* a mutant: the channel hands the newest value out first
ChanSendFront(buffer, v) == <<v>> \o buffer

\* ch <- v on a buffered channel with room: v joins the end of the buffer
ChanSend(buffer, v) == Append(buffer, v)

\* the goroutine: select takes case ch <- response, which is ready whenever
\* the buffer has room, cancelled context or not
PipeSend ==
    /\ ppc = "select"
    /\ Len(ch) < ChanCap(prequests)
    /\ ch' = ChanSend(ch, presponse)
    /\ ppc' = "loop"
    /\ UNCHANGED <<prequests, pindex, presponse, chClosed, cancelled, received, atCancel>>

\* the goroutine: select takes case <-ctx.Done(): return, the deferred
\* close(ch) runs
PipeDone ==
    /\ ppc = "select"
    /\ cancelled
    /\ ppc' = "closed"
    /\ chClosed' = TRUE
    /\ UNCHANGED <<prequests, pindex, presponse, ch, cancelled, received, atCancel>>

\* the goroutine: the loop is over, the deferred close(ch) runs
PipeClose ==
    /\ ppc = "loop"
    /\ pindex = Len(prequests)
    /\ ppc' = "closed"
    /\ chClosed' = TRUE
    /\ UNCHANGED <<prequests, pindex, presponse, ch, cancelled, received, atCancel>>

\* the caller cancels ctx after ExecuteContext has returned the channel
PipeCancel ==
    /\ ppc # "adding"
    /\ ~cancelled
    /\ cancelled' = TRUE
    /\ atCancel' = Len(Sent)
    /\ UNCHANGED <<prequests, ppc, pindex, presponse, ch, chClosed, received>>

\* the caller receives the next value from ch
PipeReceive ==
    /\ ch # <<>>
    /\ received' = Append(received, Head(ch))
    /\ ch' = Tail(ch)
    /\ UNCHANGED <<prequests, ppc, pindex, presponse, chClosed, cancelled, atCancel>>

(***************************************************************************)
(* internal/middleware/tracing.go, as client.executeRequest calls it       *)
(***************************************************************************)
TraceProcs == 1..NumTraceProcs

\* executeRequest begins for a new request and calls Before: the span
\* tracer.Start returns is stored in the field t.span
TracingBefore(p) ==
    /\ trProc[p].pc = "idle"
    /\ trCalls < MaxTraceCalls
    /\ trCalls' = trCalls + 1
    /\ spans' = Append(spans, [req |-> trCalls + 1, ends |-> <<>>])
    /\ tspan' = Len(spans) + 1
    /\ trProc' = [trProc EXCEPT ![p] = [pc |-> "sent", req |-> trCalls + 1]]
    /\ UNCHANGED trAfter

\* c.httpClient.Do(req) returns: with a response the After loop follows, with
\* an error executeRequest returns and After is not called
TracingDo(p) ==
    /\ trProc[p].pc = "sent"
    /\ \E ok \in BOOLEAN :
          trProc' = [trProc EXCEPT ![p].pc = IF ok THEN "after" ELSE "idle"]
    /\ UNCHANGED <<tspan, spans, trCalls, trAfter>>

\* After: if t.span != nil { t.span.SetAttributes(...); t.span.End() }
TracingAfter(p) ==
    /\ trProc[p].pc = "after"
    /\ spans' = IF tspan # 0
                THEN [spans EXCEPT ![tspan].ends = Append(@, trProc[p].req)]
                ELSE spans
    /\ trAfter' = trAfter \cup {trProc[p].req}
    /\ trProc' = [trProc EXCEPT ![p].pc = "idle"]
    /\ UNCHANGED <<tspan, trCalls>>

(***************************************************************************)
(* internal/middleware/circuitbreaker.go                                   *)
(***************************************************************************)
CBProcs == 1..NumCBProcs

\* the zero time.Time, further back than any timeout
ZeroTime == 0 - (MaxCBTimeout + MaxNow + 1)

\* NewCircuitBreaker(threshold, timeout)
NewCircuitBreaker(threshold, timeout) ==
    [state |-> StateClosed, failures |-> 0, lastFailTime |-> ZeroTime,
     threshold |-> threshold, timeout |-> timeout]

CBIdleProc == [pc |-> "idle", state |-> StateClosed, lastFailTime |-> ZeroTime]

\* time.Since(t)
Since(t) == cbNow - t

\* the record of a call that took cb.state from from to to
Transition(op, from, to, status) ==
    [op |-> op, from |-> from, to |-> to, status |-> status]

\* Before: state, failures and lastFailTime are read under RLock
BeforeRead(p) ==
    /\ cbProc[p].pc = "idle"
    /\ cbCalls < MaxCBCalls
    /\ cbCalls' = cbCalls + 1
    /\ cbProc' = [cbProc EXCEPT ![p] = [pc |-> "read", state |-> cb.state,
                                         lastFailTime |-> cb.lastFailTime]]
    /\ UNCHANGED <<cb, cbNow, probes, cbLast, afterLog>>

\* the request of p goes out, the breaker being in state st: Before has
\* returned nil
Admit(p, st) == IF st = StateHalfOpen THEN probes \cup {p} ELSE probes

\* Before: the switch on the state read.  Open within the timeout returns
\* the error; Open past the timeout goes on to take the Lock; HalfOpen and
\* Closed return nil
BeforeSwitch(p) ==
    /\ cbProc[p].pc = "read"
    /\ IF cbProc[p].state = StateOpen
       THEN IF Since(cbProc[p].lastFailTime) > cb.timeout
            THEN /\ cbProc' = [cbProc EXCEPT ![p].pc = "lock"]
                 /\ UNCHANGED probes
            ELSE /\ cbProc' = [cbProc EXCEPT ![p] = CBIdleProc]
                 /\ UNCHANGED probes
       ELSE /\ cbProc' = [cbProc EXCEPT ![p].pc = "inflight"]
            /\ probes' = Admit(p, cb.state)
    /\ UNCHANGED <<cb, cbNow, cbCalls, cbLast, afterLog>>

\* Before: cb.mu.Lock(); cb.state = StateHalfOpen; cb.mu.Unlock(); return nil
BeforeHalfOpen(p) ==
    /\ cbProc[p].pc = "lock"
    /\ cb' = [cb EXCEPT !.state = StateHalfOpen]
    /\ cbLast' = Transition("Before", cb.state, StateHalfOpen, 0)
    /\ cbProc' = [cbProc EXCEPT ![p].pc = "inflight"]
    /\ probes' = Admit(p, StateHalfOpen)
    /\ UNCHANGED <<cbNow, cbCalls, afterLog>>

\* a mutant: only a status below 400 resets the failures
AfterKeepsFailuresOn4xx(c, status) ==
    IF status >= 500
    THEN [c EXCEPT !.failures = @ + 1,
                   !.lastFailTime = cbNow,
                   !.state = IF c.failures + 1 >= c.threshold THEN StateOpen ELSE @]
    ELSE IF status >= 400 THEN c
    ELSE [c EXCEPT !.failures = 0,
                   !.state = IF @ = StateHalfOpen THEN StateClosed ELSE @]

\* After(resp), all of it under Lock
After(c, status) ==
    IF status >= 500
    THEN [c EXCEPT !.failures = @ + 1,
                   !.lastFailTime = cbNow,
                   !.state = IF c.failures + 1 >= c.threshold THEN StateOpen ELSE @]
    ELSE [c EXCEPT !.failures = 0,
                   !.state = IF @ = StateHalfOpen THEN StateClosed ELSE @]

\* the response of p's request arrives and is given to After
AfterCall(p) ==
    /\ cbProc[p].pc = "inflight"
    /\ \E status \in {200, 404, 500} :
          /\ cb' = After(cb, status)
          /\ afterLog' = Append(afterLog, status)
          /\ cbLast' = Transition("After", cb.state, After(cb, status).state, status)
          /\ probes' = IF After(cb, status).state = StateHalfOpen
                        THEN probes \ {p} ELSE {}
    /\ cbProc' = [cbProc EXCEPT ![p] = CBIdleProc]
    /\ UNCHANGED <<cbNow, cbCalls>>

\* the request of p ends without a response: After is not called
NoResponse(p) ==
    /\ cbProc[p].pc = "inflight"
    /\ probes' = probes \ {p}
    /\ cbProc' = [cbProc EXCEPT ![p] = CBIdleProc]
    /\ UNCHANGED <<cb, cbNow, cbCalls, cbLast, afterLog>>

\* time passes
CBTick ==
    /\ cbNow < MaxNow
    /\ cbNow' = cbNow + 1
    /\ UNCHANGED <<cb, cbProc, cbCalls, probes, cbLast, afterLog>>

(***************************************************************************)
(* unnamed/part_004: the cache middleware                                  *)
(***************************************************************************)
NoRequest == [Method |-> "", URL |-> "", XCacheKey |-> ""]
NoEntry == [Response |-> [StatusCode |-> 0, Headers |-> "", Body |-> ""],
            ExpiresAt |-> -1]

CacheURLs == {"/a", "/b"}

\* generateKey: the hex MD5 of "METHOD:URL", a string that differs whenever
\* the text hashed differs
generateKey(req) == "md5(" \o req.Method \o ":" \o req.URL \o ")"

\* the requests the callers send; a request may already carry an
\* X-Cache-Key header
CacheRequests ==
    [Method : {"GET", "POST"}, URL : CacheURLs,
     XCacheKey : {"", generateKey([Method |-> "GET", URL |-> "/b"])}]

\* the responses the servers give
CacheResponses ==
    [StatusCode : {200, 404}, Headers : {"Content-Type: text/plain"},
     Body : {"one", "two"}]

\* Before: for a GET whose key has an entry that time.Now() is Before, the
\* request's X-Cache-Key header is set to the key
cacheBefore(req) ==
    IF req.Method # "GET" THEN req
    ELSE LET key == generateKey(req)
         IN  IF key \in DOMAIN cache /\ cacheNow < cache[key].ExpiresAt
             THEN [req EXCEPT !.XCacheKey = key]
             ELSE req

\* a mutant: every response below 400 is stored
CacheableAnyMethod(req, resp) == resp.StatusCode < 400

\* After: only a GET answered below 400 goes on to be stored
Cacheable(req, resp) == ~(req.Method # "GET" \/ resp.StatusCode >= 400)

\* After: the key is the request's X-Cache-Key header, or generateKey
afterKey(req) == IF req.XCacheKey = "" THEN generateKey(req) ELSE req.XCacheKey

\* f with key k bound to v
MapPut(f, k, v) == [x \in DOMAIN f \cup {k} |-> IF x = k THEN v ELSE f[x]]

\* After(resp), resp.Request being req: the cache it leaves
cacheAfter(req, resp) ==
    IF ~Cacheable(req, resp) THEN cache
    ELSE MapPut(cache, afterKey(req),
                [Response |-> resp, ExpiresAt |-> cacheNow + ttl, by |-> req.Method])

\* a mutant: an entry counts as expired at its expiry time already
ExpiredAtExpiry(now, entry) == now >= entry.ExpiresAt

\* now.After(entry.ExpiresAt)
Expired(now, entry) == now > entry.ExpiresAt

\* GetCachedResponse(req): the response and whether it was found
GetCachedResponse(req) ==
    IF req.Method # "GET" THEN [resp |-> NoEntry.Response, found |-> FALSE]
    ELSE LET key == generateKey(req)
         IN  IF key \notin DOMAIN cache \/ Expired(cacheNow, cache[key])
             THEN [resp |-> NoEntry.Response, found |-> FALSE]
             ELSE [resp |-> cache[key].Response, found |-> TRUE]

\* the record of a call on the cache
CacheCall(op, method, status, changed, early) ==
    [op |-> op, method |-> method, status |-> status, changed |-> changed,
     early |-> early]

\* a caller's request passes Before and goes out
CacheBefore ==
    /\ creq = NoRequest
    /\ \E req \in CacheRequests : creq' = cacheBefore(req)
    /\ cacheLast' = CacheCall("Before", creq'.Method, 0, FALSE, FALSE)
    /\ UNCHANGED <<cache, ttl, cacheNow, stored>>

\* the response to the request in flight arrives and passes After
CacheAfter ==
    /\ creq # NoRequest
    /\ \E resp \in CacheResponses :
          /\ cache' = cacheAfter(creq, resp)
          /\ stored' = IF creq.Method = "GET" /\ resp.StatusCode < 400
                       THEN [stored EXCEPT ![creq.URL] =
                                [Response |-> resp, ExpiresAt |-> cacheNow + ttl]]
                       ELSE stored
          /\ cacheLast' = CacheCall("After", creq.Method, resp.StatusCode,
                                    cacheAfter(creq, resp) # cache, FALSE)
    /\ creq' = NoRequest
    /\ UNCHANGED <<ttl, cacheNow>>

\* cleanup: one tick of the ticker; every entry that now is After is deleted
CacheCleanup ==
    /\ LET dead == { k \in DOMAIN cache : Expired(cacheNow, cache[k]) }
       IN  /\ cache' = [k \in DOMAIN cache \ dead |-> cache[k]]
           /\ cacheLast' = CacheCall("cleanup", "", 0, dead # {},
                                     \E k \in dead : cacheNow <= cache[k].ExpiresAt)
    /\ UNCHANGED <<ttl, cacheNow, creq, stored>>

\* time passes
CacheTick ==
    /\ cacheNow < MaxCacheNow
    /\ cacheNow' = cacheNow + 1
    /\ UNCHANGED <<cache, ttl, creq, stored, cacheLast>>

(***************************************************************************)
(* The fluent interface: With* methods clone the receiver's configuration, *)
(* change the clone and build a new client on it.  Maps and slices are     *)
(* references: a header map is an id in maps, a slice is a header          *)
(* [array, len] on a backing array in arrays.                              *)
(***************************************************************************)
\* a key a map does not hold; the zero value of an array slot
Absent == "<absent>"

\* the keys With* calls put in Headers
ConfigKeys == {"X-A", "x-a", "X-B", "Authorization"}

\* http.Header.Set stores under textproto.CanonicalMIMEHeaderKey(key): the
\* first letter and every letter after a hyphen in upper case, the rest in
\* lower case
CanonicalMIMEHeaderKey(k) == IF k = "x-a" THEN "X-A" ELSE k

\* the header names of a request
HeaderNames == {"User-Agent"} \cup {CanonicalMIMEHeaderKey(k) : k \in ConfigKeys}

\* make(map[string]string)
EmptyMap == [k \in ConfigKeys |-> Absent]

\* a nil slice
NilSlice == [array |-> 0, len |-> 0]

\* cap(s)
Cap(heap, s) == IF s.array = 0 THEN 0 ELSE Len(heap[s.array])

\* the elements s shows: s[0:len(s)]
Contents(heap, s) == [i \in 1..s.len |-> heap[s.array][i]]

\* append(s, x): with spare capacity x is written into the backing array of
\* s; otherwise the elements move to a new array of twice the capacity
\* (capacity 1 for an empty one).  The result is the heap and the new slice.
AppendSlice(heap, s, x) ==
    IF s.len < Cap(heap, s)
    THEN [heap |-> [heap EXCEPT ![s.array][s.len + 1] = x],
          slice |-> [array |-> s.array, len |-> s.len + 1]]
    ELSE LET newcap == IF Cap(heap, s) = 0 THEN 1 ELSE 2 * Cap(heap, s)
             grown == [i \in 1..newcap |->
                          IF i <= s.len THEN heap[s.array][i]
                          ELSE IF i = s.len + 1 THEN x ELSE Absent]
         IN  [heap |-> Append(heap, grown),
              slice |-> [array |-> Len(heap) + 1, len |-> s.len + 1]]

\* config.Default() as the fluent interface sees it; its Headers map is the
\* first of the heap
DefaultConfig ==
    [UserAgent |-> "httpclient/1.0", Headers |-> 1,
     RequestInterceptors |-> NilSlice]

\* Config.Clone on the heap: clone := *c copies the scalars and the slice
\* header; Headers is a new map holding the entries of c.Headers
CloneOnHeap(heap, c) ==
    [maps |-> Append(heap, heap[c.Headers]),
     config |-> [c EXCEPT !.Headers = Len(heap) + 1]]

\* what a configuration shows: its scalars, the entries of its header map
\* and the elements of its interceptor slice
ViewOf(cfg, mapHeap, arrayHeap) ==
    [UserAgent |-> cfg.UserAgent,
     Headers |-> mapHeap[cfg.Headers],
     RequestInterceptors |-> Contents(arrayHeap, cfg.RequestInterceptors)]

View(i) == ViewOf(fclients[i].config, maps, arrays)

\* client.setHeaders: User-Agent from the configuration, then req.Header.Set
\* for every entry of config.Headers, in the order the map yields them.  A
\* header name two keys canonicalise to ends with the value of whichever
\* came last; the result is the set of header maps the orders produce.
setHeaders(v) ==
    LET Written(name) ==
            {v.Headers[k] : k \in {q \in ConfigKeys :
                                      /\ v.Headers[q] # Absent
                                      /\ CanonicalMIMEHeaderKey(q) = name}}
        Final(name) ==
            IF Written(name) # {} THEN Written(name)
            ELSE IF name = "User-Agent" THEN {v.UserAgent} ELSE {Absent}
    IN  {h \in [HeaderNames -> {v.UserAgent, Absent, "1", "2", "Bearer t"}] :
            \A name \in HeaderNames : h[name] \in Final(name)}

\* the entries a call sets in Headers
Sets(pairs) ==
    [k \in ConfigKeys |-> IF \E p \in pairs : p[1] = k
                          THEN (CHOOSE p \in pairs : p[1] = k)[2] ELSE Absent]

\* the WithHeader, WithAuth and WithHeaders calls made so far
HeaderCalls ==
    Cardinality({i \in 1..Len(made) :
                    made[i].op \in {"WithHeader", "WithAuth", "WithHeaders"}})

ScalarCalls == Cardinality({i \in 1..Len(made) : made[i].op = "WithUserAgent"})

\* return New(newConfig): the new client joins the others
Derive(op, r, newConfig, newMaps, newArrays, pairs) ==
    /\ Len(fclients) < MaxClients
    /\ fclients' = Append(fclients, [config |-> newConfig])
    /\ maps' = newMaps
    /\ arrays' = newArrays
    /\ made' = Append(made, [op |-> op, parent |-> r,
                             view |-> ViewOf(newConfig, newMaps, newArrays)])
    /\ fLast' = [op |-> op, receiver |-> r, before |-> View(r),
                 child |-> Len(fclients) + 1, set |-> Sets(pairs)]

\* newConfig.Headers[key] = value for every pair, on the clone's map
SetHeaders(r, op, pairs) ==
    LET cl == CloneOnHeap(maps, fclients[r].config)
        id == cl.config.Headers
        written == [k \in ConfigKeys |->
                       IF Sets(pairs)[k] # Absent THEN Sets(pairs)[k]
                       ELSE cl.maps[id][k]]
    IN  /\ HeaderCalls < MaxHeaderCalls
        /\ Derive(op, r, cl.config, [cl.maps EXCEPT ![id] = written],
                  arrays, pairs)

WithHeader ==
    \E r \in 1..Len(fclients), key \in {"X-A", "x-a"}, value \in {"1", "2"} :
        SetHeaders(r, "WithHeader", {<<key, value>>})

\* WithAuth: c.WithHeader("Authorization", "Bearer "+token)
WithAuth ==
    \E r \in 1..Len(fclients), token \in {"t"} :
        SetHeaders(r, "WithAuth", {<<"Authorization", "Bearer " \o token>>})

WithHeaders ==
    \E r \in 1..Len(fclients) :
        SetHeaders(r, "WithHeaders", {<<"X-A", "2">>, <<"X-B", "1">>})

WithUserAgent ==
    \E r \in 1..Len(fclients), userAgent \in {"ua"} :
        LET cl == CloneOnHeap(maps, fclients[r].config)
        IN  /\ ScalarCalls < MaxScalarCalls
            /\ Derive("WithUserAgent", r,
                      [cl.config EXCEPT !.UserAgent = userAgent],
                      cl.maps, arrays, {})

\* newConfig.RequestInterceptors = append(newConfig.RequestInterceptors,
\* interceptor); every call passes a function of its own, named after the
\* client it makes
WithRequestInterceptor ==
    \E r \in 1..Len(fclients) :
        LET cl == CloneOnHeap(maps, fclients[r].config)
            interceptor == "f" \o Itoa(Len(fclients) + 1)
            ap == AppendSlice(arrays, cl.config.RequestInterceptors, interceptor)
        IN  Derive("WithRequestInterceptor", r,
                   [cl.config EXCEPT !.RequestInterceptors = ap.slice],
                   cl.maps, ap.heap, {})
(***************************************************************************)
(* SpecRetry: Execute on an arbitrary operation fn.  fn returns data, a    *)
(* typed *HTTPError (4xx or 5xx), or an untyped error.                     *)
(***************************************************************************)
OpOutcomes ==
    { [data |-> "ok", err |-> NilErr],
      [data |-> NilData, err |-> NewHTTPError(400, "Bad request")],
      [data |-> NilData, err |-> NewHTTPError(404, "Not found")],
      [data |-> NilData, err |-> NewHTTPError(499, "Client closed")],
      [data |-> NilData, err |-> NewHTTPError(500, "boom")],
      [data |-> NilData, err |-> Errorf("HTTP 500: boom")],
      [data |-> NilData, err |-> Errorf("request failed: timeout")] }

RetryIdle ==
    /\ e = NewExponentialBackoff(DefaultRetries)
    /\ rpc = "idle"
    /\ attempt = 0
    /\ lastErr = NilErr
    /\ invoked = <<>>
    /\ slept = <<>>
    /\ ret = [data |-> NilData, err |-> NilErr]

\* the client httpclient.New() returns: client.New(config.Default())
ClientStart(c) ==
    /\ phase = "ready"
    /\ client = c
    /\ newStack = <<>>
    /\ chain = 0
    /\ doStack = <<>>
    /\ transport = <<>>
    /\ result = [data |-> NilData, err |-> NilErr]
    /\ callsMade = 0
    /\ streak = 0
    /\ sinceFail = 0
    /\ armed = FALSE
    /\ events = <<>>
    /\ ctxDone = FALSE

ClientIdle == ClientStart(NewClient(Default, <<>>))

\* the load balancer loadbalancer.New(endpoints, strategy) returns for a
\* list that makes the pool given
LBWithPool(strategy, pool) ==
    /\ lbStrategy = strategy
    /\ endpoints = pool
    /\ current = 0
    /\ lbMu = [readers |-> {}, writer |-> 0]
    /\ lbProc = [p \in LBProcs |-> IdleProc]
    /\ lbPanic = "none"
    /\ lbStarted = 0
    /\ lbMutated = 0
    /\ selLog = <<>>
    /\ returned = [u \in { EndpointURL(i) : i \in 1..(MaxPool + 1) } |-> 0]

\* the load balancer for a list of n distinct endpoints
LBIdle(strategy, n) == LBWithPool(strategy, NewPool(n))

\* a list that names one endpoint twice
DuplicatePool == <<NewEndpoint(EndpointURL(1)), NewEndpoint(EndpointURL(1))>>

\* the batch NewBatchRequest(client) returns
BatchIdle ==
    /\ requests = <<>>
    /\ bpc = "adding"
    /\ responses = <<>>
    /\ wg = 0
    /\ task = <<>>
    /\ bret = [n |-> 0, err |-> NilErr]

\* the pipeline NewPipelineRequest(client) returns
PipeIdle ==
    /\ prequests = <<>>
    /\ ppc = "adding"
    /\ pindex = 0
    /\ presponse = ZeroResponse
    /\ ch = <<>>
    /\ chClosed = FALSE
    /\ cancelled = FALSE
    /\ received = <<>>
    /\ atCancel = -1

\* a circuit breaker NewCircuitBreaker has just returned, nobody calling
CBIdle(threshold, timeout) ==
    /\ cb = NewCircuitBreaker(threshold, timeout)
    /\ cbNow = 0
    /\ cbProc = [p \in CBProcs |-> CBIdleProc]
    /\ cbCalls = 0
    /\ probes = {}
    /\ cbLast = Transition("New", StateClosed, StateClosed, 0)
    /\ afterLog = <<>>

\* the cache NewCache(t) returns
CacheIdle(t) ==
    /\ cache = <<>>
    /\ ttl = t
    /\ cacheNow = 0
    /\ creq = NoRequest
    /\ stored = [u \in CacheURLs |-> NoEntry]
    /\ cacheLast = CacheCall("New", "", 0, FALSE, FALSE)

\* httpclient.New(): one client on config.Default()
FluentIdle ==
    /\ fclients = <<[config |-> DefaultConfig]>>
    /\ maps = <<EmptyMap>>
    /\ arrays = <<>>
    /\ made = <<[op |-> "New", parent |-> 0,
                 view |-> ViewOf(DefaultConfig, <<EmptyMap>>, <<>>)]>>
    /\ fLast = [op |-> "New", receiver |-> 0,
                before |-> ViewOf(DefaultConfig, <<EmptyMap>>, <<>>),
                child |-> 1, set |-> EmptyMap]

\* the tracing middleware middleware.NewTracing() returns: no span yet
TraceIdle ==
    /\ tspan = 0
    /\ spans = <<>>
    /\ trProc = [p \in 1..NumTraceProcs |-> [pc |-> "idle", req |-> 0]]
    /\ trCalls = 0
    /\ trAfter = {}

vars == <<retryVars, clientVars, lbVars, batchVars, pipeVars, cbVars, cacheVars, fluentVars, tracingVars>>

\* cfg.Retries is an int that WithRetries stores as given; -1 stands for
\* the negative values
RetryCounts == {-1} \cup 0..MaxRetries

RetryCall ==
    /\ rpc = "idle"
    /\ \E r \in RetryCounts : ExecuteEnter(NewExponentialBackoff(r))

RetryInvoke == \E out \in OpOutcomes : ExecuteAttempt(out)

InitRetry == RetryIdle /\ ClientIdle /\ LBIdle(RoundRobin, 0) /\ BatchIdle /\ PipeIdle /\ CBIdle(CircuitBreakerThreshold, CircuitBreakerTimeout) /\ CacheIdle(MaxTTL) /\ FluentIdle /\ TraceIdle

NextRetry ==
    \/ RetryCall /\ UNCHANGED <<clientVars, lbVars, batchVars, pipeVars, cbVars, cacheVars, fluentVars, tracingVars>>
    \/ RetryInvoke /\ UNCHANGED <<clientVars, lbVars, batchVars, pipeVars, cbVars, cacheVars, fluentVars, tracingVars>>
    \/ ExecuteSleep /\ UNCHANGED <<clientVars, lbVars, batchVars, pipeVars, cbVars, cacheVars, fluentVars, tracingVars>>
    \/ ExecuteExhausted /\ UNCHANGED <<clientVars, lbVars, batchVars, pipeVars, cbVars, cacheVars, fluentVars, tracingVars>>

SpecRetry == InitRetry /\ [][NextRetry]_vars

(***************************************************************************)
(* SpecClient: a chain of With* calls on httpclient.New() and GET calls on *)
(* the client the chain has built.                                         *)
(***************************************************************************)
InitClient == RetryIdle /\ ClientIdle /\ LBIdle(RoundRobin, 0) /\ BatchIdle /\ PipeIdle /\ CBIdle(CircuitBreakerThreshold, CircuitBreakerTimeout) /\ CacheIdle(MaxTTL) /\ FluentIdle /\ TraceIdle

NextClient ==
    \/ WithRetries /\ UNCHANGED <<lbVars, batchVars, pipeVars, cbVars, cacheVars, fluentVars, tracingVars>>
    \/ WithBaseURL /\ UNCHANGED <<lbVars, batchVars, pipeVars, cbVars, cacheVars, fluentVars, tracingVars>>
    \/ WithBackupEndpoints /\ UNCHANGED <<lbVars, batchVars, pipeVars, cbVars, cacheVars, fluentVars, tracingVars>>
    \/ WithCircuitBreaker /\ UNCHANGED <<lbVars, batchVars, pipeVars, cbVars, cacheVars, fluentVars, tracingVars>>
    \/ WithMetrics /\ UNCHANGED <<lbVars, batchVars, pipeVars, cbVars, cacheVars, fluentVars, tracingVars>>
    \/ WithTracing /\ UNCHANGED <<lbVars, batchVars, pipeVars, cbVars, cacheVars, fluentVars, tracingVars>>
    \/ WithDebug /\ UNCHANGED <<lbVars, batchVars, pipeVars, cbVars, cacheVars, fluentVars, tracingVars>>
    \/ NewBackup /\ UNCHANGED <<lbVars, batchVars, pipeVars, cbVars, cacheVars, fluentVars, tracingVars>>
    \/ NewReturn /\ UNCHANGED <<lbVars, batchVars, pipeVars, cbVars, cacheVars, fluentVars, tracingVars>>
    \/ CallGET /\ UNCHANGED <<lbVars, batchVars, pipeVars, cbVars, cacheVars, fluentVars, tracingVars>>
    \/ DoPrepare /\ UNCHANGED <<lbVars, batchVars, pipeVars, cbVars, cacheVars, fluentVars, tracingVars>>
    \/ DoAttempt /\ UNCHANGED <<lbVars, batchVars, pipeVars, cbVars, cacheVars, fluentVars, tracingVars>>
    \/ DoSleep /\ UNCHANGED <<lbVars, batchVars, pipeVars, cbVars, cacheVars, fluentVars, tracingVars>>
    \/ DoExhausted /\ UNCHANGED <<lbVars, batchVars, pipeVars, cbVars, cacheVars, fluentVars, tracingVars>>
    \/ DoFinish /\ UNCHANGED <<lbVars, batchVars, pipeVars, cbVars, cacheVars, fluentVars, tracingVars>>
    \/ DoReturn /\ UNCHANGED <<lbVars, batchVars, pipeVars, cbVars, cacheVars, fluentVars, tracingVars>>
    \/ Tick /\ UNCHANGED <<lbVars, batchVars, pipeVars, cbVars, cacheVars, fluentVars, tracingVars>>

SpecClient == InitClient /\ [][NextClient]_vars

(***************************************************************************)
(* SpecDo: one call of do on a client given with its pipeline steps, its   *)
(* Retries and its backup clients; the caller may cancel the context.      *)
(***************************************************************************)
InitDo ==
    /\ RetryIdle /\ LBIdle(RoundRobin, 0) /\ BatchIdle /\ PipeIdle
    /\ CBIdle(CircuitBreakerThreshold, CircuitBreakerTimeout)
    /\ CacheIdle(MaxTTL) /\ FluentIdle /\ TraceIdle
    /\ \E fs \in Profiles, r \in 0..MaxDoRetries, n \in 0..MaxBackups :
          ClientStart(DoClient(fs, r, n))

NextDo ==
    \/ CallDo /\ UNCHANGED <<lbVars, batchVars, pipeVars, cbVars, cacheVars, fluentVars, tracingVars>>
    \/ Cancel /\ UNCHANGED <<lbVars, batchVars, pipeVars, cbVars, cacheVars, fluentVars, tracingVars>>
    \/ DoPrepare /\ UNCHANGED <<lbVars, batchVars, pipeVars, cbVars, cacheVars, fluentVars, tracingVars>>
    \/ DoAttempt /\ UNCHANGED <<lbVars, batchVars, pipeVars, cbVars, cacheVars, fluentVars, tracingVars>>
    \/ DoSleep /\ UNCHANGED <<lbVars, batchVars, pipeVars, cbVars, cacheVars, fluentVars, tracingVars>>
    \/ DoExhausted /\ UNCHANGED <<lbVars, batchVars, pipeVars, cbVars, cacheVars, fluentVars, tracingVars>>
    \/ DoFinish /\ UNCHANGED <<lbVars, batchVars, pipeVars, cbVars, cacheVars, fluentVars, tracingVars>>
    \/ DoReturn /\ UNCHANGED <<lbVars, batchVars, pipeVars, cbVars, cacheVars, fluentVars, tracingVars>>

SpecDo == InitDo /\ [][NextDo]_vars

(***************************************************************************)
(* SpecLB: NumProcs goroutines call NextEndpoint, AddEndpoint and          *)
(* RemoveEndpoint on one load balancer of any strategy and initial pool.   *)
(***************************************************************************)
InitLB ==
    /\ RetryIdle /\ ClientIdle /\ BatchIdle /\ PipeIdle /\ CBIdle(CircuitBreakerThreshold, CircuitBreakerTimeout) /\ CacheIdle(MaxTTL) /\ FluentIdle /\ TraceIdle
    /\ \/ \E strategy \in Strategies, n \in 0..MaxPool : LBIdle(strategy, n)
       \/ LBWithPool(LeastConn, DuplicatePool)

NextLB ==
    \E p \in LBProcs :
       \/ NextBegin(p) /\ UNCHANGED <<retryVars, clientVars, batchVars, pipeVars, cbVars, cacheVars, fluentVars, tracingVars>>
       \/ NextSelect(p) /\ UNCHANGED <<retryVars, clientVars, batchVars, pipeVars, cbVars, cacheVars, fluentVars, tracingVars>>
       \/ NextReturn(p) /\ UNCHANGED <<retryVars, clientVars, batchVars, pipeVars, cbVars, cacheVars, fluentVars, tracingVars>>
       \/ AddBegin(p) /\ UNCHANGED <<retryVars, clientVars, batchVars, pipeVars, cbVars, cacheVars, fluentVars, tracingVars>>
       \/ RemoveBegin(p) /\ UNCHANGED <<retryVars, clientVars, batchVars, pipeVars, cbVars, cacheVars, fluentVars, tracingVars>>
       \/ AddApply(p) /\ UNCHANGED <<retryVars, clientVars, batchVars, pipeVars, cbVars, cacheVars, fluentVars, tracingVars>>
       \/ RemoveApply(p) /\ UNCHANGED <<retryVars, clientVars, batchVars, pipeVars, cbVars, cacheVars, fluentVars, tracingVars>>

SpecLB == InitLB /\ [][NextLB]_vars

(***************************************************************************)
(* SpecBatch: items are added to a batch, then ExecuteContext runs.        *)
(***************************************************************************)
InitBatch == RetryIdle /\ ClientIdle /\ LBIdle(RoundRobin, 0) /\ BatchIdle /\ PipeIdle /\ CBIdle(CircuitBreakerThreshold, CircuitBreakerTimeout) /\ CacheIdle(MaxTTL) /\ FluentIdle /\ TraceIdle

NextBatch ==
    \/ BatchAdd /\ UNCHANGED <<retryVars, clientVars, lbVars, pipeVars, cbVars, cacheVars, fluentVars, tracingVars>>
    \/ BatchExecute /\ UNCHANGED <<retryVars, clientVars, lbVars, pipeVars, cbVars, cacheVars, fluentVars, tracingVars>>
    \/ BatchSpawn /\ UNCHANGED <<retryVars, clientVars, lbVars, pipeVars, cbVars, cacheVars, fluentVars, tracingVars>>
    \/ BatchSpawned /\ UNCHANGED <<retryVars, clientVars, lbVars, pipeVars, cbVars, cacheVars, fluentVars, tracingVars>>
    \/ \E i \in 1..Len(task) : TaskExecute(i) /\ UNCHANGED <<retryVars, clientVars, lbVars, pipeVars, cbVars, cacheVars, fluentVars, tracingVars>>
    \/ \E i \in 1..Len(task) : TaskStore(i) /\ UNCHANGED <<retryVars, clientVars, lbVars, pipeVars, cbVars, cacheVars, fluentVars, tracingVars>>
    \/ BatchReturn /\ UNCHANGED <<retryVars, clientVars, lbVars, pipeVars, cbVars, cacheVars, fluentVars, tracingVars>>

SpecBatch == InitBatch /\ [][NextBatch]_vars

(***************************************************************************)
(* SpecPipeline: items are added to a pipeline, then ExecuteContext runs,  *)
(* the caller receives from the channel and may cancel the context.  The   *)
(* goroutine ExecuteContext starts keeps running while it can, and the     *)
(* caller keeps receiving.                                                 *)
(***************************************************************************)
InitPipeline == RetryIdle /\ ClientIdle /\ LBIdle(RoundRobin, 0) /\ BatchIdle /\ PipeIdle /\ CBIdle(CircuitBreakerThreshold, CircuitBreakerTimeout) /\ CacheIdle(MaxTTL) /\ FluentIdle /\ TraceIdle

NextPipelineTask ==
    \/ PipeIterate /\ UNCHANGED <<retryVars, clientVars, lbVars, batchVars, cbVars, cacheVars, fluentVars, tracingVars>>
    \/ PipeExecuted /\ UNCHANGED <<retryVars, clientVars, lbVars, batchVars, cbVars, cacheVars, fluentVars, tracingVars>>
    \/ PipeSend /\ UNCHANGED <<retryVars, clientVars, lbVars, batchVars, cbVars, cacheVars, fluentVars, tracingVars>>
    \/ PipeDone /\ UNCHANGED <<retryVars, clientVars, lbVars, batchVars, cbVars, cacheVars, fluentVars, tracingVars>>
    \/ PipeClose /\ UNCHANGED <<retryVars, clientVars, lbVars, batchVars, cbVars, cacheVars, fluentVars, tracingVars>>

NextPipelineReceive ==
    PipeReceive /\ UNCHANGED <<retryVars, clientVars, lbVars, batchVars, cbVars, cacheVars, fluentVars, tracingVars>>

NextPipeline ==
    \/ PipelineAdd /\ UNCHANGED <<retryVars, clientVars, lbVars, batchVars, cbVars, cacheVars, fluentVars, tracingVars>>
    \/ PipelineExecute /\ UNCHANGED <<retryVars, clientVars, lbVars, batchVars, cbVars, cacheVars, fluentVars, tracingVars>>
    \/ NextPipelineTask
    \/ PipeCancel /\ UNCHANGED <<retryVars, clientVars, lbVars, batchVars, cbVars, cacheVars, fluentVars, tracingVars>>
    \/ NextPipelineReceive

SpecPipeline ==
    /\ InitPipeline
    /\ [][NextPipeline]_vars
    /\ WF_vars(NextPipelineTask)
    /\ WF_vars(NextPipelineReceive)

(***************************************************************************)
(* SpecPipelineTask: as SpecPipeline, but only the goroutine keeps         *)
(* running: the caller may receive and may cancel, and need do neither.    *)
(***************************************************************************)
SpecPipelineTask ==
    /\ InitPipeline
    /\ [][NextPipeline]_vars
    /\ WF_vars(NextPipelineTask)

(***************************************************************************)
(* SpecCB: NumCBProcs goroutines send requests through one circuit         *)
(* breaker: Before, then the request, then After with the response.        *)
(***************************************************************************)
InitCB ==
    /\ RetryIdle /\ ClientIdle /\ LBIdle(RoundRobin, 0) /\ BatchIdle /\ PipeIdle /\ CacheIdle(MaxTTL) /\ FluentIdle /\ TraceIdle
    /\ \E threshold \in 1..MaxCBThreshold, timeout \in 1..MaxCBTimeout :
          CBIdle(threshold, timeout)

NextCB ==
    \/ \E p \in CBProcs : BeforeRead(p) /\ UNCHANGED <<retryVars, clientVars, lbVars, batchVars, pipeVars, cacheVars, fluentVars, tracingVars>>
    \/ \E p \in CBProcs : BeforeSwitch(p) /\ UNCHANGED <<retryVars, clientVars, lbVars, batchVars, pipeVars, cacheVars, fluentVars, tracingVars>>
    \/ \E p \in CBProcs : BeforeHalfOpen(p) /\ UNCHANGED <<retryVars, clientVars, lbVars, batchVars, pipeVars, cacheVars, fluentVars, tracingVars>>
    \/ \E p \in CBProcs : AfterCall(p) /\ UNCHANGED <<retryVars, clientVars, lbVars, batchVars, pipeVars, cacheVars, fluentVars, tracingVars>>
    \/ \E p \in CBProcs : NoResponse(p) /\ UNCHANGED <<retryVars, clientVars, lbVars, batchVars, pipeVars, cacheVars, fluentVars, tracingVars>>
    \/ CBTick /\ UNCHANGED <<retryVars, clientVars, lbVars, batchVars, pipeVars, cacheVars, fluentVars, tracingVars>>

SpecCB == InitCB /\ [][NextCB]_vars

(***************************************************************************)
(* SpecCache: callers send requests through one cache middleware while its *)
(* cleanup goroutine runs and time passes.  The ticker of cleanup keeps    *)
(* firing.                                                                 *)
(***************************************************************************)
InitCache ==
    /\ RetryIdle /\ ClientIdle /\ LBIdle(RoundRobin, 0) /\ BatchIdle /\ PipeIdle /\ FluentIdle /\ TraceIdle
    /\ CBIdle(CircuitBreakerThreshold, CircuitBreakerTimeout)
    /\ \E t \in 0..MaxTTL : CacheIdle(t)

NextCacheCleanup ==
    CacheCleanup /\ UNCHANGED <<retryVars, clientVars, lbVars, batchVars, pipeVars, cbVars, fluentVars, tracingVars>>

NextCache ==
    \/ CacheBefore /\ UNCHANGED <<retryVars, clientVars, lbVars, batchVars, pipeVars, cbVars, fluentVars, tracingVars>>
    \/ CacheAfter /\ UNCHANGED <<retryVars, clientVars, lbVars, batchVars, pipeVars, cbVars, fluentVars, tracingVars>>
    \/ NextCacheCleanup
    \/ CacheTick /\ UNCHANGED <<retryVars, clientVars, lbVars, batchVars, pipeVars, cbVars, fluentVars, tracingVars>>

SpecCache == InitCache /\ [][NextCache]_vars /\ WF_vars(NextCacheCleanup)

(***************************************************************************)
(* SpecFluent: With* calls on the root client and on the clients they      *)
(* return, in any order and on any receiver.                               *)
(***************************************************************************)
InitFluent ==
    /\ RetryIdle /\ ClientIdle /\ LBIdle(RoundRobin, 0) /\ BatchIdle /\ PipeIdle /\ TraceIdle
    /\ CBIdle(CircuitBreakerThreshold, CircuitBreakerTimeout)
    /\ CacheIdle(MaxTTL) /\ FluentIdle

NextFluent ==
    \/ WithHeader /\ UNCHANGED <<retryVars, clientVars, lbVars, batchVars, pipeVars, cbVars, cacheVars, tracingVars>>
    \/ WithAuth /\ UNCHANGED <<retryVars, clientVars, lbVars, batchVars, pipeVars, cbVars, cacheVars, tracingVars>>
    \/ WithHeaders /\ UNCHANGED <<retryVars, clientVars, lbVars, batchVars, pipeVars, cbVars, cacheVars, tracingVars>>
    \/ WithUserAgent /\ UNCHANGED <<retryVars, clientVars, lbVars, batchVars, pipeVars, cbVars, cacheVars, tracingVars>>
    \/ WithRequestInterceptor /\ UNCHANGED <<retryVars, clientVars, lbVars, batchVars, pipeVars, cbVars, cacheVars, tracingVars>>

SpecFluent == InitFluent /\ [][NextFluent]_vars

(***************************************************************************)
(* Claims about the client (checked under SpecClient).                     *)
(***************************************************************************)
\* a top-level call has returned and its transport calls are on record
CallFinished == phase = "ready" /\ doStack = <<>> /\ callsMade > 0

\* C1: a call whose every transport attempt was answered 404 has made
\* exactly one transport attempt and returns no data and the error
\* "HTTP 404: <body>", whatever Retries is configured.
C1_NotFoundIsNotRetried ==
    ( /\ CallFinished
      /\ transport # <<>>
      /\ \A i \in 1..Len(transport) : transport[i].out = Response(404, "Not found") )
    =>
    ( /\ Len(transport) = 1
      /\ result.data = NilData
      /\ ErrorText(result.err) = "HTTP 404: Not found" )

PrimaryURL == "http://x/"
BackupURL == "http://y/"

\* C2: the client for BaseURL = primary, BackupEndpoints = [backup] gets
\* built (New does not end the program), and its GET with Retries = 1, the
\* primary answering 500 and the backup 200 "ok", attempts the primary
\* twice, then the backup, and returns ("ok", nil).
C2_BackupBodyReturned ==
    /\ phase = "fatal" =>
          ~( /\ newStack[1].cfg.BaseURL = "http://x"
             /\ newStack[1].cfg.BackupEndpoints = <<"http://y">> )
    /\ ( /\ CallFinished
         /\ client.config.BaseURL = "http://x"
         /\ client.config.BackupEndpoints = <<"http://y">>
         /\ client.config.Retries = 1
         /\ \A i \in 1..Len(transport) :
               \/ transport[i].url = PrimaryURL /\ transport[i].out = Response(500, "boom")
               \/ transport[i].url = BackupURL /\ transport[i].out = Response(200, "ok") )
       =>
       ( /\ result = [data |-> "ok", err |-> NilErr]
         /\ Len(transport) = 3
         /\ transport[1].url = PrimaryURL
         /\ transport[2].url = PrimaryURL
         /\ transport[3].url = BackupURL )

\* C3: a call begun after at least CircuitBreakerThreshold consecutive calls
\* of the client ended in a 5xx response, and before CircuitBreakerTimeout
\* has passed since the last of them, makes no transport call and returns
\* the breaker-open error.
C3_BreakerRejectsAfterThreshold ==
    armed =>
        /\ transport = <<>>
        /\ doStack = <<>> => ErrorText(result.err) = "circuit breaker is open"

\* C36: New returns for every configuration with a finite list of backup
\* endpoints: the New of a backup client, entered from the loop of the New
\* asked for, enters no New of its own, so at most two calls of New are ever
\* nested and the goroutine stack is never exhausted.
C36_NewOfBackupEntersNoNew ==
    /\ Len(newStack) <= 2
    /\ phase # "fatal"

(***************************************************************************)
(* Claims about one call of do (checked under SpecDo).                     *)
(***************************************************************************)
\* the positions in events of the calls of a backup client's do
BackupCalls == {i \in 1..Len(events) : events[i].kind = "backup"}

\* the attempts the client called has made before position i
PrimaryAttemptsBefore(i) ==
    Cardinality({j \in 1..(i - 1) :
                    events[j].kind = "attempt" /\ events[j].by = <<>>})

\* C21: a backup client is attempted only after the Execute of the client
\* called has returned an error, all of its maxRetries + 1 attempts used;
\* the backup clients are attempted one at a time in configured order, each
\* after the one before it has returned an error; once a backup client
\* has succeeded no later one is attempted and the call returns its data;
\* if the Execute of the client called succeeds no backup client is
\* attempted.
C21_BackupsAfterPrimaryInOrder ==
    LET calls == BackupCalls
    IN  /\ \A i \in calls :
              /\ \E j \in 1..(i - 1) :
                    /\ events[j].kind = "executed"
                    /\ events[j].by = <<>>
                    /\ events[j].err # NilErr
              /\ \/ PrimaryAttemptsBefore(i) = client.retryStrategy.maxRetries + 1
                 \/ \E j \in 1..(i - 1) :
                       /\ events[j].kind = "attempt"
                       /\ events[j].by = <<>>
                       /\ IsClientError(events[j].err)
                       /\ PrimaryAttemptsBefore(j + 1) = PrimaryAttemptsBefore(i)
              /\ events[i].n = Cardinality({j \in calls : j <= i})
              /\ events[i].n > 1 =>
                    \E j \in 1..(i - 1) :
                        /\ events[j].kind = "returned"
                        /\ events[j].by = <<events[i].n - 1>>
                        /\ events[j].err # NilErr
        /\ \A j \in 1..Len(events) :
              /\ events[j].by # <<>> =>
                    \E i \in calls : i < j /\ events[i].n = events[j].by[1]
              /\ ( /\ events[j].kind = "returned"
                   /\ events[j].by # <<>>
                   /\ events[j].err = NilErr ) =>
                    /\ \A i \in calls : i < j
                    /\ doStack = <<>> =>
                          result = [data |-> events[j].text, err |-> NilErr]
              /\ ( /\ events[j].kind = "executed"
                   /\ events[j].by = <<>>
                   /\ events[j].err = NilErr ) => calls = {}

\* the client called fails twice, its first backup client fails twice, the
\* second one answers
C21_Witness ==
    /\ doStack = <<>>
    /\ callsMade = 1
    /\ client.retryStrategy.maxRetries = 1
    /\ Len(client.backupClients) = 2
    /\ Cardinality(BackupCalls) = 2
    /\ Len(transport) = 5
    /\ transport[1].url = "http://p/" /\ transport[2].url = "http://p/"
    /\ transport[3].url = "http://b1/" /\ transport[4].url = "http://b1/"
    /\ transport[5].url = "http://b2/"
    /\ result = [data |-> "ok", err |-> NilErr]

\* the positions in events where the do of a backup client returned
BackupReturns ==
    {i \in 1..Len(events) : events[i].kind = "returned" /\ events[i].by # <<>>}

\* the top-level call has returned, and every backup client of the client
\* called was attempted and returned an error
AllBackupsFailed ==
    /\ doStack = <<>>
    /\ callsMade = 1
    /\ Len(client.backupClients) > 0
    /\ Cardinality(BackupReturns) = Len(client.backupClients)
    /\ \A i \in BackupReturns : events[i].err # NilErr

C23_NothingStartedAfterCancel ==
    \A i \in 1..Len(events) :
        events[i].done => events[i].kind \notin {"attempt", "sleep", "backup"}

\* the client whose do logged the events marked by
ClientAt(by) == IF by = <<>> THEN client ELSE client.backupClients[by[1]]

RECURSIVE MarksOf(_, _)
\* what the first k interceptors of ics have written on the request
MarksOf(ics, k) ==
    IF k = 0 THEN ""
    ELSE MarksOf(ics, k - 1) \o (IF ics[k].fails THEN "" ELSE ics[k].mark)

\* the request interceptors one do has called before position j
InterceptorsBefore(by, j) ==
    {i \in 1..(j - 1) : events[i].by = by /\ events[i].kind = "interceptor"}

\* C24: within one do the request interceptors are each called once, in
\* registration order and before anything is signed or sent, each seeing
\* what the earlier ones wrote on the request; when the i-th returns an
\* error no later interceptor is called, nothing is signed or sent by that
\* do, and it returns an error that wraps the interceptor's error.
C24_RequestInterceptorsOnceInOrder ==
    \A j \in 1..Len(events) :
        LET by == events[j].by
            ics == ClientAt(by).config.RequestInterceptors
        IN  /\ events[j].kind = "interceptor" =>
                  /\ events[j].n \in 1..Len(ics)
                  /\ Cardinality(InterceptorsBefore(by, j)) = events[j].n - 1
                  /\ events[j].text = MarksOf(ics, events[j].n - 1)
                  /\ \A i \in 1..(j - 1) :
                        events[i].by = by =>
                            /\ events[i].kind \notin {"sign", "attempt"}
                            /\ events[i].err = NilErr
                  /\ events[j].err # NilErr =>
                        /\ \A i \in (j + 1)..Len(events) :
                              events[i].by = by =>
                                  /\ events[i].kind = "returned"
                                  /\ events[i].err =
                                        ErrorfW("request interceptor failed: ",
                                                events[j].err)
                        /\ (by = <<>> /\ doStack = <<>>) =>
                              result.err = ErrorfW("request interceptor failed: ",
                                                   events[j].err)
            /\ events[j].kind \in {"sign", "attempt"} =>
                  /\ Cardinality(InterceptorsBefore(by, j)) = Len(ics)
                  /\ \A i \in InterceptorsBefore(by, j) : events[i].err = NilErr

\* the second of three interceptors has returned an error after the first
\* wrote its mark; the call has returned that error and nothing was sent
C24_Witness ==
    /\ doStack = <<>>
    /\ callsMade = 1
    /\ Len(client.config.RequestInterceptors) = 3
    /\ Len(events) = 4
    /\ events[1].kind = "resolve"
    /\ events[2].kind = "interceptor" /\ events[2].err = NilErr
    /\ events[3].kind = "interceptor" /\ events[3].n = 2
    /\ events[3].text = "a"
    /\ events[3].err = Errorf("denied by b")
    /\ events[4].kind = "returned"
    /\ transport = <<>>
    /\ result.err =
          ErrorfW("request interceptor failed: ", Errorf("denied by b"))

\* the top-level call has returned an error and the client called, which
\* has backup clients, never reached retryStrategy.Execute: it failed in the
\* whitelist check, the rate-limit wait, the URL, the body, the request, an
\* interceptor or the signature
PrimaryFailedBeforeExecute ==
    /\ doStack = <<>>
    /\ callsMade = 1
    /\ result.err # NilErr
    /\ Len(client.backupClients) > 0
    /\ \A i \in 1..Len(events) :
          events[i].by = <<>> => events[i].kind \notin {"attempt", "executed"}

UrlStrOf(by) ==
    LET i == CHOOSE i \in 1..Len(events) :
                 events[i].by = by /\ events[i].kind = "resolve"
    IN  events[i].text

C27_ResponseInterceptorsOnceAndFatal ==
    \A j \in 1..Len(events) :
        (events[j].kind = "attempt" /\ events[j].n > 0) =>
            /\ \A i \in 1..Len(events) :
                  ( /\ i # j
                    /\ events[i].kind = "attempt"
                    /\ events[i].by = events[j].by ) => events[i].n = 0
            /\ events[j].stage = "interceptor" =>
                  \A i \in (j + 1)..Len(events) :
                      events[i].by = events[j].by =>
                          /\ events[i].kind \notin {"attempt", "sleep"}
                          /\ events[i].kind \in {"executed", "returned"} =>
                                events[i].err = events[j].err

C29_TransientFailuresReachAfter ==
    \A j \in 1..Len(events) :
        ( /\ events[j].kind = "attempt"
          /\ \/ events[j].stage = "transport"
             \/ events[j].status >= 500 ) =>
            events[j].after = Len(ClientAt(events[j].by).middlewares)

\* the NextEndpoint calls the do marked by has made before position j
SelectionsBefore(by, j) ==
    {i \in 1..(j - 1) : events[i].by = by /\ events[i].kind = "select"}

\* what NextEndpoint returned to the do marked by before position j, ""
\* when it was not called
SelectedBefore(by, j) ==
    IF SelectionsBefore(by, j) = {} THEN ""
    ELSE events[CHOOSE i \in SelectionsBefore(by, j) : TRUE].text

\* C32: endpoint resolution follows a strict precedence: with a load
\* balancer that returns a non-empty endpoint the urlStr is resolved against
\* that endpoint; with no load balancer, or one that returns "", against
\* the base URL; with no base URL either the urlStr is used as given.  A do
\* with a load balancer calls NextEndpoint once, one without never, and
\* every attempt of the do goes to the URL so resolved.
C32_EndpointPrecedence ==
    \A j \in 1..Len(events) :
        LET by == events[j].by
            c == ClientAt(by)
            endpoint == SelectedBefore(by, j)
            expected ==
                IF endpoint # ""
                THEN ResolveReference(endpoint, UrlStrOf(by))
                ELSE IF c.config.BaseURL # ""
                THEN ResolveReference(c.config.BaseURL, UrlStrOf(by))
                ELSE UrlStrOf(by)
        IN  /\ events[j].kind = "resolve" =>
                  /\ Cardinality(SelectionsBefore(by, j)) =
                        (IF c.loadBalancer # <<>> THEN 1 ELSE 0)
                  /\ \A i \in (j + 1)..Len(events) :
                        events[i].by = by =>
                            events[i].kind \notin {"select", "resolve"}
            /\ events[j].kind = "attempt" =>
                  /\ \E i \in 1..(j - 1) :
                        /\ events[i].by = by
                        /\ events[i].kind = "resolve"
                        /\ events[i].err = NilErr
                  /\ events[j].text = expected

\* the load balancer of the client called returned "": after one retry the
\* call was answered by the server of the base URL
C32_Witness ==
    /\ doStack = <<>>
    /\ callsMade = 1
    /\ client.loadBalancer # <<>>
    /\ client.config.BaseURL = "http://p"
    /\ \E i \in 1..Len(events) :
          events[i].kind = "select" /\ events[i].by = <<>> /\ events[i].text = ""
    /\ Len(transport) = 2
    /\ transport[1].url = "http://p/" /\ transport[2].url = "http://p/"
    /\ result = [data |-> "ok", err |-> NilErr]

\* the place of an event of one do in the order of its steps
StepRank(kind) ==
    CASE kind = "whitelist" -> 1
      [] kind = "wait" -> 2
      [] kind = "select" -> 3
      [] kind = "resolve" -> 4
      [] kind = "marshal" -> 5
      [] kind = "interceptor" -> 6
      [] kind = "sign" -> 7
      [] kind \in {"attempt", "sleep"} -> 8
      [] OTHER -> 9

\* the events of the steps that come before the retried transport
BeforeTransport ==
    {"whitelist", "wait", "select", "resolve", "marshal", "interceptor", "sign"}

\* C33: the steps of one do run in the order whitelist check, rate-limit
\* wait, endpoint resolution, body serialization, request interceptors,
\* signing, retried transport, each step but the interceptors and the
\* transport at most once; when a step fails the do does nothing more than
\* return its error: no token is taken after a whitelist failure, NextEndpoint
\* is not called after a failed wait, and nothing is sent.
C33_StepsInOrderFailureStops ==
    \A j \in 1..Len(events) :
        /\ \A i \in 1..(j - 1) :
              events[i].by = events[j].by =>
                  /\ StepRank(events[i].kind) <= StepRank(events[j].kind)
                  /\ ( /\ events[i].kind = events[j].kind
                       /\ events[j].kind \in BeforeTransport ) =>
                        events[j].kind = "interceptor"
        /\ (events[j].kind \in BeforeTransport /\ events[j].err # NilErr) =>
              /\ \A i \in (j + 1)..Len(events) :
                    events[i].by = events[j].by =>
                        /\ events[i].kind = "returned"
                        /\ events[i].err \in
                              {events[j].err,
                               ErrorfW("request interceptor failed: ",
                                       events[j].err)}
              /\ events[j].by = <<>> => transport = <<>>

\* the whitelist check passed and the rate-limit wait failed on a client
\* with a load balancer: NextEndpoint was not called, nothing was sent
C33_Witness ==
    /\ doStack = <<>>
    /\ callsMade = 1
    /\ client.loadBalancer # <<>>
    /\ Len(events) = 3
    /\ events[1].kind = "whitelist" /\ events[1].err = NilErr
    /\ events[2].kind = "wait"
    /\ events[2].err = ErrorfW("rate limit exceeded: ", Canceled)
    /\ events[3].kind = "returned" /\ events[3].err = events[2].err
    /\ transport = <<>>
    /\ result.err = events[2].err

(***************************************************************************)
(* Claims about the retry policy (checked under SpecRetry).                *)
(***************************************************************************)
Failed(out) == out.err # NilErr

\* a 500 outcome of fn: a typed *HTTPError with status 500 or the untyped
\* "HTTP 500: ..." error
Is500(out) ==
    \/ out.err = NewHTTPError(500, "boom")
    \/ out.err = Errorf("HTTP 500: boom")

\* C4: Execute invokes the operation at most maxRetries + 1 times; the first
\* invocation that succeeds is the last one, Execute has then returned its
\* data without a further sleep; with maxRetries = 0 a finished Execute has
\* invoked the operation exactly once.
C4_AtMostMaxRetriesPlusOne ==
    /\ Len(invoked) <= e.maxRetries + 1
    /\ \A i \in 1..Len(invoked) :
          ~Failed(invoked[i]) =>
              /\ i = Len(invoked)
              /\ rpc = "done"
              /\ ret = [data |-> invoked[i].data, err |-> NilErr]
              /\ Len(slept) = i - 1
    /\ (rpc = "done" /\ e.maxRetries = 0) => Len(invoked) = 1

C4_Witness ==
    /\ rpc = "done"
    /\ e.maxRetries = 3
    /\ Len(invoked) = 2
    /\ Failed(invoked[1])
    /\ ~Failed(invoked[2])

\* C5: when the operation fails with a 500 outcome exactly maxRetries times
\* and then succeeds, Execute returns the data of invocation maxRetries + 1,
\* has slept exactly once between consecutive invocations, the sleep after
\* the invocation with loop index k (before the one with index k + 1) lasted
\* min(baseDelay * multiplier^k, maxDelay), and the delays are non-decreasing
\* and never above maxDelay.
C5_BackoffThenSuccess ==
    ( /\ rpc = "done"
      /\ e.maxRetries >= 0
      /\ Len(invoked) = e.maxRetries + 1
      /\ \A i \in 1..e.maxRetries : Is500(invoked[i])
      /\ ~Failed(invoked[e.maxRetries + 1]) )
    =>
    ( /\ ret = [data |-> invoked[e.maxRetries + 1].data, err |-> NilErr]
      /\ Len(slept) = e.maxRetries
      /\ \A k \in 0..(e.maxRetries - 1) :
            slept[k + 1] = Min(e.baseDelay * Pow(e.multiplier, k), e.maxDelay)
      /\ \A k \in 1..Len(slept) : slept[k] <= e.maxDelay
      /\ \A k \in 1..(Len(slept) - 1) : slept[k] <= slept[k + 1] )

\* the default schedule reaches the clamp: 1, 2, 4, 8, 16, 30 seconds
C5_Witness ==
    /\ rpc = "done"
    /\ e.maxRetries = 6
    /\ Len(invoked) = 7
    /\ \A i \in 1..6 : Is500(invoked[i])
    /\ ~Failed(invoked[7])
    /\ slept = <<1, 2, 4, 8, 16, 30>>

\* C6: when all maxRetries + 1 invocations fail with a retryable error,
\* Execute returns no data and an error whose text is
\* "max retries exceeded: " followed by the text of the last invocation's
\* error, and unwrapping it gives that error.
C6_ExhaustedWrapsLastError ==
    ( /\ rpc = "done"
      /\ e.maxRetries >= 0
      /\ Len(invoked) = e.maxRetries + 1
      /\ \A i \in 1..Len(invoked) :
            Failed(invoked[i]) /\ ~IsClientError(invoked[i].err) )
    =>
    ( /\ ret.data = NilData
      /\ ErrorText(ret.err) =
            "max retries exceeded: " \o ErrorText(invoked[Len(invoked)].err)
      /\ Unwrap(ret.err) = invoked[Len(invoked)].err )

\* the last error differs from the earlier ones
C6_Witness ==
    /\ rpc = "done"
    /\ e.maxRetries = 2
    /\ Len(invoked) = 3
    /\ invoked[1].err = NewHTTPError(500, "boom")
    /\ invoked[2].err = NewHTTPError(500, "boom")
    /\ invoked[3].err = Errorf("request failed: timeout")
    /\ ErrorText(ret.err) = "max retries exceeded: request failed: timeout"

\* C30: an invocation that returns an *HTTPError with status in [400, 500)
\* is the last one: Execute has returned that same error, unwrapped, with no
\* data and without sleeping after it; an invocation that fails with an
\* *HTTPError of status >= 500 or with any other error while attempts remain
\* does not end Execute: it is followed by a sleep and another invocation.
C30_ClientErrorStopsOthersRetried ==
    \A i \in 1..Len(invoked) :
        IF /\ invoked[i].err.type = "HTTPError"
           /\ invoked[i].err.StatusCode >= 400
           /\ invoked[i].err.StatusCode < 500
        THEN /\ i = Len(invoked)
             /\ rpc = "done"
             /\ ret = [data |-> NilData, err |-> invoked[i].err]
             /\ Len(slept) = i - 1
        ELSE (Failed(invoked[i]) /\ i <= e.maxRetries) =>
                /\ i = Len(invoked) => rpc \in {"sleep", "loop"}
                /\ i < Len(invoked) => Len(slept) >= i
                /\ rpc = "done" => i < Len(invoked)

\* a typed 500 is retried, the typed 404 after it ends Execute
C30_Witness ==
    /\ rpc = "done"
    /\ e.maxRetries = 3
    /\ Len(invoked) = 2
    /\ invoked[1].err = NewHTTPError(500, "boom")
    /\ invoked[2].err = NewHTTPError(404, "Not found")
    /\ ret = [data |-> NilData, err |-> NewHTTPError(404, "Not found")]
    /\ slept = <<1>>

\* C37: for every retry count, a negative one included, an Execute that has
\* returned has invoked the operation at least once, and an error it
\* returned is, or wraps, the non-nil error of one of its invocations.
C37_InvokedOnceErrorIsReal ==
    rpc = "done" =>
        /\ Len(invoked) >= 1
        /\ ret.err # NilErr =>
              \E i \in 1..Len(invoked) :
                  /\ Failed(invoked[i])
                  /\ invoked[i].err \in {ret.err, Unwrap(ret.err)}

(***************************************************************************)
(* Claims about the load balancer, under SpecLB                            *)
(***************************************************************************)
\* the round-robin pool nobody has begun to mutate, with n >= 1 endpoints
UnmutatedRoundRobin ==
    lbStrategy = RoundRobin /\ lbMutated = 0 /\ Len(endpoints) >= 1

\* the 1-based position of url in the pool
PositionOf(url) == CHOOSE i \in 1..Len(endpoints) : endpoints[i].URL = url

\* C7: on a round-robin pool of n >= 1 endpoints that is not mutated, every
\* n calls of NextEndpoint that are consecutive in the order in which the
\* calls advanced the cursor return each endpoint exactly once, and every
\* window follows the same rotation: each call returns the successor, in
\* pool order and cyclically, of what the call before returned.
C7_RoundRobinRotation ==
    UnmutatedRoundRobin =>
        LET n == Len(endpoints)
        IN  /\ \A j \in 1..(Len(selLog) - n + 1) :
                  { selLog[i] : i \in j..(j + n - 1) } = URLsOf(endpoints)
            /\ \A j \in 1..(Len(selLog) - 1) :
                  PositionOf(selLog[j + 1]) = (PositionOf(selLog[j]) % n) + 1
            /\ \A j \in 1..(Len(selLog) - n) : selLog[j + n] = selLog[j]

C7_Witness ==
    /\ UnmutatedRoundRobin
    /\ Len(endpoints) = 2
    /\ Len(selLog) >= 4
    /\ SubSeq(selLog, 1, 4) = <<EndpointURL(2), EndpointURL(1),
                                EndpointURL(2), EndpointURL(1)>>

\* the NextEndpoint calls that have returned
CompletedCalls ==
    LET RECURSIVE Sum(_)
        Sum(i) == IF i = 0 THEN 0 ELSE returned[EndpointURL(i)] + Sum(i - 1)
    IN  Sum(MaxPool + 1)

\* no NextEndpoint call is between its selection and its return
NoCallInFlight == \A p \in LBProcs : lbProc[p].op # "next"

C9_SelectionIsSafe ==
    /\ lbPanic = "none"
    /\ \A p \in LBProcs :
          lbProc[p].returned => lbProc[p].member

\* the position of the first endpoint of the pool whose counter is minimal
FirstMinimum(pool) ==
    CHOOSE k \in 1..Len(pool) :
        /\ \A j \in 1..Len(pool) : pool[k].Connections <= pool[j].Connections
        /\ \A j \in 1..(k - 1) : pool[j].Connections > pool[k].Connections

\* goroutine p makes the selection of a NextEndpoint call in this step
Selects(p) ==
    /\ lbProc[p].op = "next"
    /\ lbProc[p].pc = "locked"
    /\ lbProc'[p].pc = "selected"

\* goroutine p returns from a NextEndpoint call in this step
Returns(p) ==
    /\ lbProc[p].op = "next"
    /\ lbProc[p].pc = "selected"
    /\ lbProc'[p].pc = "idle"

\* C34: least-connections NextEndpoint on a non-empty pool selects the
\* endpoint whose counter is minimal, the lowest position among ties,
\* adds one to that counter and to no other, and returns that endpoint's
\* URL; no step lowers the counter of an entry that stays in the pool.
C34_LeastConnSelectsFirstMinimum ==
    [][ lbStrategy = LeastConn =>
          /\ \A p \in LBProcs :
                /\ (Selects(p) /\ Len(endpoints) > 0) =>
                      /\ lbProc'[p].index = FirstMinimum(endpoints) - 1
                      /\ endpoints' =
                            [endpoints EXCEPT
                                ![FirstMinimum(endpoints)].Connections = @ + 1]
                /\ (Returns(p) /\ lbProc[p].index >= 0) =>
                      /\ endpoints' = endpoints
                      /\ lbProc'[p].res = endpoints[lbProc[p].index + 1].URL
          /\ [i \in 1..Len(endpoints) |-> endpoints[i].URL]
                 = [i \in 1..Len(endpoints') |-> endpoints'[i].URL] =>
                \A i \in 1..Len(endpoints) :
                    endpoints'[i].Connections >= endpoints[i].Connections
      ]_vars

\* three calls on a pool of two: the tie went to the first endpoint, the
\* second call to the second, the third to the first again
C34_Witness ==
    /\ lbStrategy = LeastConn
    /\ lbMutated = 0
    /\ Len(endpoints) = 2
    /\ endpoints[1].Connections = 2
    /\ endpoints[2].Connections = 1
    /\ lbStarted = 3
    /\ \A p \in LBProcs : lbProc[p].pc = "idle"

\* goroutine p completes a RemoveEndpoint call in this step
Removes(p) ==
    /\ lbProc[p].op = "remove"
    /\ lbProc[p].pc = "locked"
    /\ lbProc'[p].pc = "idle"

\* goroutine p completes an AddEndpoint call in this step
Adds(p) ==
    /\ lbProc[p].op = "add"
    /\ lbProc[p].pc = "locked"
    /\ lbProc'[p].pc = "idle"

\* the positions of the pool that hold the URL url
Occurrences(pool, url) == {i \in 1..Len(pool) : pool[i].URL = url}

\* C35: for every strategy, RemoveEndpoint(e) leaves a pool without e as it
\* is (entries, order, weights and counters); from a pool with e it takes
\* out the first entry for e and no other, and the other entries keep their
\* order, weights and counters; AddEndpoint puts exactly one entry, for the
\* URL given, at the end and leaves the entries before it as they are.
C35_RemoveFirstAddLast ==
    [][ \A p \in LBProcs :
          LET url == lbProc[p].arg
              hits == Occurrences(endpoints, url)
              n == Len(endpoints)
          IN  /\ (Removes(p) /\ hits = {}) => endpoints' = endpoints
              /\ (Removes(p) /\ hits # {}) =>
                    LET k == CHOOSE i \in hits : \A j \in hits : i <= j
                    IN  /\ Len(endpoints') = n - 1
                        /\ \A i \in 1..(k - 1) : endpoints'[i] = endpoints[i]
                        /\ \A i \in k..(n - 1) : endpoints'[i] = endpoints[i + 1]
              /\ Adds(p) =>
                    /\ Len(endpoints') = n + 1
                    /\ \A i \in 1..n : endpoints'[i] = endpoints[i]
                    /\ endpoints'[n + 1].URL = url
      ]_vars

\* a least-connections pool that named one endpoint twice: the first entry
\* had been selected once, RemoveEndpoint took it out and left the second
\* entry with its counter 0
C35_Witness ==
    /\ lbStrategy = LeastConn
    /\ lbMutated = 1
    /\ lbStarted = 1
    /\ \E p \in LBProcs : lbProc[p].returned /\ lbProc[p].res = EndpointURL(1)
    /\ endpoints = <<[URL |-> EndpointURL(1), Weight |-> 1, Connections |-> 0]>>
    /\ \A p \in LBProcs : lbProc[p].pc = "idle"

\* the goroutines that hold the lock of their NextEndpoint call and have
\* not yet drawn their number
Drawing == {p \in LBProcs : lbProc[p].op = "next" /\ lbProc[p].pc = "locked"}

\* C39: for the random and the weighted-random strategy, on a pool that is
\* not empty, no two goroutines are at the draw from the strategy's random
\* source at the same time.
C39_RandomDrawExclusive ==
    (lbStrategy \in {Random, WeightedRandom} /\ Len(endpoints) > 0) =>
        Cardinality(Drawing) <= 1

(***************************************************************************)
(* Claims about the batch, under SpecBatch                                 *)
(***************************************************************************)
\* C10: ExecuteContext over N added items returns only after all N tasks
\* have finished, returns N results and a nil error, and results[i] has
\* Index i and the outcome of item i: its error is non-nil exactly when
\* item i failed, whatever the completion order and the number of failures.
\* the request of an item failed: no response, or a status of 400 and above
ItemFailed(tr) == tr.kind = "error" \/ tr.StatusCode >= 400

C10_BatchJoinsAllItems ==
    bpc = "returned" =>
        /\ Len(task) = Len(requests)
        /\ \A i \in 1..Len(task) : task[i].pc = "done"
        /\ bret.n = Len(requests)
        /\ Len(responses) = Len(requests)
        /\ bret.err = NilErr
        /\ \A i \in 1..Len(requests) :
              /\ responses[i].Index = i - 1
              /\ responses[i].Data = task[i].data
              /\ responses[i].Error = task[i].err
              /\ (responses[i].Error # NilErr) <=> ItemFailed(task[i].tr)
              /\ (responses[i].Error = NilErr) => responses[i].Data = task[i].tr.body

C10_Witness ==
    /\ bpc = "returned"
    /\ Len(requests) = 3
    /\ responses[1].Error = ErrorfW("request failed: ", Errorf("connection refused"))
    /\ responses[2].Error = NilErr /\ responses[2].Data = "ok"
    /\ responses[3].Error = Errorf("HTTP 500: 500 Internal Server Error")

(***************************************************************************)
(* Claims about the pipeline, under SpecPipeline                           *)
(***************************************************************************)
\* ExecuteContext has been called
PipelineStarted == ppc # "adding"

\* the stream is over for the caller: all N results received, ch closed
PipelineComplete ==
    /\ chClosed
    /\ ch = <<>>
    /\ Len(received) = Len(prequests)
    /\ \A j \in 1..Len(received) : received[j].Index = j - 1

\* while ctx is not cancelled: the j-th result sent has Index j - 1, an
\* item's request begins only when every earlier item's result has been
\* sent, and ch is closed only after all N results
PipelineInOrder ==
    ~cancelled =>
        /\ Len(Sent) <= Len(prequests)
        /\ \A j \in 1..Len(Sent) : Sent[j].Index = j - 1
        /\ Len(Sent) = IF ppc \in {"executing", "select"} THEN pindex - 1 ELSE pindex
        /\ chClosed => Len(Sent) = Len(prequests)

\* C11: a pipeline over N items whose ctx is never cancelled sends exactly N
\* results in submission order (the j-th has Index j - 1), begins each
\* item only after the one before it has finished, and then closes ch: the
\* caller ends up having received the N results from a closed channel.
C11_PipelineStreamsInOrder ==
    /\ []PipelineInOrder
    /\ PipelineStarted ~> (cancelled \/ PipelineComplete)

C11_Witness ==
    /\ ~cancelled
    /\ PipelineComplete
    /\ Len(received) = 3
    /\ received[1].Error # NilErr
    /\ received[2].Error = NilErr

\* C12: once ctx is cancelled with k < N results produced, no further
\* result, not even an error result, is sent for the remaining items: the
\* stream carries exactly those k results.
C12_CancelStopsPipeline ==
    (cancelled /\ atCancel < Len(prequests)) => Len(Sent) = atCancel

\* the goroutine of ExecuteContext has returned and closed ch
TaskOver == ppc = "closed" /\ chClosed

\* C38: the goroutine ExecuteContext starts always ends and closes ch, also
\* when the caller never receives and ctx is never cancelled: whenever the
\* goroutine is at its select the buffer of ch has room for the result,
\* because ch has room for one result per item.
C38_TaskEndsWithoutConsumer ==
    /\ [](ppc = "select" => Len(ch) < Len(prequests))
    /\ [](Len(Sent) <= Len(prequests))
    /\ PipelineStarted ~> TaskOver

\* nothing was received, ctx was not cancelled: all results sit in the
\* buffer of the closed channel
C38_Witness ==
    /\ TaskOver
    /\ ~cancelled
    /\ received = <<>>
    /\ Len(prequests) = MaxItems
    /\ Len(ch) = Len(prequests)

(***************************************************************************)
(* Claims about the circuit breaker, under SpecCB                          *)
(***************************************************************************)
\* C13: while the breaker is HalfOpen, at most one request that Before let
\* through has its outcome still unreported: once a probe is out, every
\* other Before call is rejected until After has seen the probe's response.
C13_SingleProbe == Cardinality(probes) <= 1

\* C14: whenever After runs on a HalfOpen breaker with threshold >= 1, a
\* status below 500 leaves the breaker Closed and a status of 500 or above
\* leaves it Open, whatever the failure counter was.
C14_ProbeOutcomeDecides ==
    (cbLast.op = "After" /\ cbLast.from = StateHalfOpen /\ cb.threshold >= 1) =>
        cbLast.to = IF cbLast.status < 500 THEN StateClosed ELSE StateOpen

\* the changes of state the breaker's design has
AllowedTransitions ==
    { <<StateClosed, StateOpen>>, <<StateOpen, StateHalfOpen>>,
      <<StateHalfOpen, StateClosed>>, <<StateHalfOpen, StateOpen>> }

\* C15: over every interleaving of Before and After calls, every change of
\* cb.state is Closed->Open, Open->HalfOpen, HalfOpen->Closed or
\* HalfOpen->Open.
C15_OnlyDesignedTransitions ==
    cbLast.from # cbLast.to => <<cbLast.from, cbLast.to>> \in AllowedTransitions

\* the responses with status >= 500 given to After since the last response
\* with a lower status, or since NewCircuitBreaker
ConsecutiveFailures ==
    LET lower == {i \in 1..Len(afterLog) : afterLog[i] < 500}
        last == IF lower = {} THEN 0
                ELSE CHOOSE i \in lower : \A j \in lower : j <= i
    IN  Len(afterLog) - last

\* C31: cb.failures is the number of consecutive responses with status >= 500
\* given to After since the last response with status < 500 (a 4xx
\* included) or since construction; Before, which gives no response to
\* After, never changes it.
C31_FailuresCountConsecutive5xx == cb.failures = ConsecutiveFailures

\* a 5xx, a 4xx that resets the counter, then two 5xx in a row
C31_Witness ==
    /\ afterLog = <<500, 404, 500, 500>>
    /\ cbCalls = 4
    /\ cb.failures = 2

(***************************************************************************)
(* Claims about the cache, under SpecCache                                 *)
(***************************************************************************)
\* a GET request for url as a caller of GetCachedResponse builds it
Lookup(url) == GetCachedResponse([Method |-> "GET", URL |-> url, XCacheKey |-> ""])

\* C16: once After has stored the response of a GET of some URL with a
\* status below 400, GetCachedResponse for a GET of that URL finds a
\* response with the same status, headers and body at every time before
\* store time + TTL, and misses at every time after it.
C16_CacheRoundTrip ==
    \A u \in CacheURLs :
        stored[u] # NoEntry =>
            /\ cacheNow < stored[u].ExpiresAt =>
                  Lookup(u) = [resp |-> stored[u].Response, found |-> TRUE]
            /\ cacheNow > stored[u].ExpiresAt => ~Lookup(u).found

\* C17: every entry of the cache holds the response of a GET request with a
\* status below 400; After leaves the cache as it was for a request that is
\* not a GET and for a status of 400 or above; GetCachedResponse misses for
\* every request that is not a GET.
C17_OnlySuccessfulGETCached ==
    /\ \A k \in DOMAIN cache :
          cache[k].by = "GET" /\ cache[k].Response.StatusCode < 400
    /\ (cacheLast.op = "After" /\ (cacheLast.method # "GET" \/ cacheLast.status >= 400))
          => ~cacheLast.changed
    /\ \A req \in CacheRequests : req.Method # "GET" => ~GetCachedResponse(req).found

C17_Witness ==
    /\ cacheLast.op = "After"
    /\ cacheLast.method = "POST"
    /\ cacheLast.status = 200
    /\ cache # <<>>
    /\ \E req \in CacheRequests :
          req.Method = "POST" /\ generateKey([req EXCEPT !.Method = "GET"]) \in DOMAIN cache

\* the key k has an entry that the clock has passed
EntryExpired(k) == k \in DOMAIN cache /\ cacheNow > cache[k].ExpiresAt

\* the keys entries are stored under
CacheKeys == { afterKey(req) : req \in CacheRequests }

\* C18: with the cleanup ticker firing again and again, every entry that
\* has expired is in the end deleted, unless a later store replaces it;
\* and cleanup never deletes an entry that has not yet expired.
C18_ExpiredEntriesSwept ==
    /\ [](~cacheLast.early)
    /\ \A k \in CacheKeys : EntryExpired(k) ~> ~EntryExpired(k)

C18_Witness ==
    /\ cacheLast.op = "cleanup"
    /\ cacheLast.changed
    /\ ~cacheLast.early
    /\ \E k \in DOMAIN cache : cacheNow = cache[k].ExpiresAt


(***************************************************************************)
(* SpecTracing: NumTraceProcs goroutines send requests through one client  *)
(* with tracing enabled: Before, the request, After with the response.     *)
(***************************************************************************)
InitTracing ==
    /\ RetryIdle /\ ClientIdle /\ LBIdle(RoundRobin, 0) /\ BatchIdle /\ PipeIdle
    /\ CBIdle(CircuitBreakerThreshold, CircuitBreakerTimeout)
    /\ CacheIdle(MaxTTL) /\ FluentIdle /\ TraceIdle

NextTracing ==
    \E p \in TraceProcs :
       \/ TracingBefore(p) /\ UNCHANGED <<retryVars, clientVars, lbVars, batchVars, pipeVars, cbVars, cacheVars, fluentVars>>
       \/ TracingDo(p) /\ UNCHANGED <<retryVars, clientVars, lbVars, batchVars, pipeVars, cbVars, cacheVars, fluentVars>>
       \/ TracingAfter(p) /\ UNCHANGED <<retryVars, clientVars, lbVars, batchVars, pipeVars, cbVars, cacheVars, fluentVars>>

SpecTracing == InitTracing /\ [][NextTracing]_vars

(***************************************************************************)
(* Claims about the tracing middleware, under SpecTracing                  *)
(***************************************************************************)
\* C40: with requests in flight concurrently on one client with tracing
\* enabled, a span is ended by no After but that of the request whose Before
\* started it, at most once, and exactly once when that After has returned.
C40_SpanEndedOnceByItsRequest ==
    \A i \in 1..Len(spans) :
        /\ Len(spans[i].ends) <= 1
        /\ \A j \in 1..Len(spans[i].ends) : spans[i].ends[j] = spans[i].req
        /\ spans[i].req \in trAfter => Len(spans[i].ends) = 1

(***************************************************************************)
(* Claims about the fluent interface (checked under SpecFluent).           *)
(***************************************************************************)
\* C19: clients derived from one parent share no collection: the headers
\* and the interceptor list a client shows are, whatever With* calls are
\* made afterwards on its parent or its siblings, the ones it was made
\* with; after WithRequestInterceptor(a) and then WithRequestInterceptor(b)
\* on the same parent the first child's list still ends in a.
C19_DerivedClientsShareNothing ==
    \A i \in 1..Len(fclients) :
        /\ View(i).RequestInterceptors = made[i].view.RequestInterceptors
        /\ View(i).Headers = made[i].view.Headers

\* C20: after child = c.WithHeader(k, v), c.WithAuth(token) or
\* c.WithHeaders(m), every request child sends carries k = v for each entry
\* the call set, and c's header map and scalar settings are what they were
\* before the call.
C20_ChildCarriesHeaderParentUnchanged ==
    fLast.op \in {"WithHeader", "WithAuth", "WithHeaders"} =>
        /\ View(fLast.receiver).Headers = fLast.before.Headers
        /\ View(fLast.receiver).UserAgent = fLast.before.UserAgent
        /\ \A h \in setHeaders(View(fLast.child)) :
              \A k \in ConfigKeys :
                  fLast.set[k] # Absent =>
                      h[CanonicalMIMEHeaderKey(k)] = fLast.set[k]

====
